---- MODULE Spec2Model ----
(***************************************************************************)
(* p4_helper: the two streaming decoders of the output of `p4 -ztag -G`.   *)
(*                                                                         *)
(*   parsers/py_dict.rs  P4PyDictParser  binary (marshalled dict) decoder  *)
(*   parsers/ztag.rs     P4ZtagParser    line oriented text decoder        *)
(*                                                                         *)
(* and the two iterators that assemble records from the binary decoder's   *)
(* triples:                                                                *)
(*                                                                         *)
(*   changes.rs   P4ChangesIterator   one P4Changelist for each record     *)
(*   describe.rs  P4DescribeIterator  one P4File for each numbered group   *)
(*                                                                         *)
(* Text is modelled as sequences of byte values (all of them ASCII), so a  *)
(* key or a value of one decoder can be compared with one of the other.    *)
(* A pull (get_next_kvp) is one action; what it returned is appended to a  *)
(* history variable, and the properties are stated over the histories.     *)
(***************************************************************************)
EXTENDS Integers, Sequences, FiniteSets, TLC

VARIABLES
    live,           \* the objects the caller has constructed
    input_dict,     \* the bytes behind P4PyDictParser.reader
    records_dict,   \* the records input_dict was encoded from
    damage_dict,    \* what was done to the encoding: none, cut or flip
    parser_dict,    \* the fields of P4PyDictParser (reader = read position)
    crashed_dict,   \* a pull on parser_dict panicked
    out_dict,       \* what each get_next_kvp on parser_dict returned
    input_ztag,     \* the lines read_line delivers to P4ZtagParser
    parser_ztag,    \* the fields of P4ZtagParser (buffered_reader = lines read)
    crashed_ztag,   \* a pull on parser_ztag panicked
    out_ztag,       \* what each get_next_kvp on parser_ztag returned
    changes_iter,   \* the fields of P4ChangesIterator (its parser is parser_dict)
    out_changes,    \* what each next on changes_iter returned
    describe_iter,  \* the fields of P4DescribeIterator (its parser is parser_dict)
    out_describe    \* what each next on describe_iter returned

vars == <<live, input_dict, records_dict, damage_dict, parser_dict, crashed_dict,
          out_dict, input_ztag, parser_ztag, crashed_ztag, out_ztag,
          changes_iter, out_changes, describe_iter, out_describe>>

vars_dict == <<input_dict, records_dict, damage_dict, parser_dict, crashed_dict, out_dict>>

vars_ztag == <<input_ztag, parser_ztag, crashed_ztag, out_ztag>>

vars_iter == <<changes_iter, out_changes, describe_iter, out_describe>>

\* ------------------------------------------------------------------ bounds

\* records in a binary stream
MaxRecords == 3

\* (key, value) pairs in one binary record
MaxPairs == 2

\* records and pairs of the binary streams that are then cut or altered
MaxDamagedRecords == 2

MaxDamagedPairs == 1

\* ------------------------------------------------------------ common helpers

\* Option<T>: None is the empty sequence, Some(x) the sequence of x alone.
None == <<>>

Some(x) == <<x>>

is_none(o) == o = <<>>

is_some(o) == o # <<>>

unwrap_or(o, d) == IF o = <<>> THEN d ELSE o[1]

\* All sequences over S of length at most n.
SeqsUpTo(S, n) == UNION {[1..k -> S] : k \in 0..n}

RECURSIVE Flatten(_)
Flatten(ss) == IF ss = <<>> THEN <<>> ELSE Head(ss) \o Flatten(Tail(ss))

\* str::starts_with
starts_with(s, p) == Len(s) >= Len(p) /\ SubSeq(s, 1, Len(p)) = p

\* A result of get_next_kvp, as the caller sees it.  kind is "Some" (Ok(Some(kvp))),
\* "None" (Ok(None)), "Err" (Err(e), err names e) or "Panic" (the call aborted).
KvpSome(i, k, v) == [kind |-> "Some", dict_index |-> i, key |-> k, value |-> v, err |-> "", tag |-> 0]

KvpNone == [kind |-> "None", dict_index |-> 0, key |-> <<>>, value |-> <<>>, err |-> "", tag |-> 0]

KvpErr(e, t) == [kind |-> "Err", dict_index |-> 0, key |-> <<>>, value |-> <<>>, err |-> e, tag |-> t]

KvpPanic == [kind |-> "Panic", dict_index |-> 0, key |-> <<>>, value |-> <<>>, err |-> "", tag |-> 0]

\* =================================================== parsers/py_dict.rs

\* The tag bytes: '{', 's', '0'.
TagDictByte == 123

TagStringByte == 115

TagNullByte == 48

\* PyDictTag::from_byte
from_byte(byte) ==
    CASE byte = TagDictByte -> "Dict"
      [] byte = TagStringByte -> "String"
      [] byte = TagNullByte -> "Null"
      [] OTHER -> "Other"

\* u32::to_le_bytes / u32::from_le_bytes
to_le_bytes(n) == <<n % 256, (n \div 256) % 256, (n \div 65536) % 256, (n \div 16777216) % 256>>

from_le_bytes(b) == b[1] + 256 * b[2] + 65536 * b[3] + 16777216 * b[4]

\* The wire form of a string token, a pair, a record and a stream.
EncString(s) == <<TagStringByte>> \o to_le_bytes(Len(s)) \o s

EncPair(p) == EncString(p.key) \o EncString(p.value)

EncRecord(rec) == <<TagDictByte>> \o Flatten([i \in 1..Len(rec) |-> EncPair(rec[i])]) \o <<TagNullByte>>

EncStream(recs) == Flatten([i \in 1..Len(recs) |-> EncRecord(recs[i])])

\* std::str::from_utf8(..).is_ok(): of the bytes used here the ASCII ones are
\* valid, and a lone byte of 128 or more is not.
utf8_ok(bytes) == \A i \in 1..Len(bytes) : bytes[i] < 128

\* P4PyDictParser::new
PyNew ==
    [reader |-> 0,
     state |-> "Root",
     current_dict_index |-> None,
     current_key_buffer |-> <<>>,
     current_value_buffer |-> <<>>]

\* P4PyDictParser::expect_tags.  A read at end of input is Ok(PyDictTag::Eof)
\* whatever `tags` holds.
expect_tags(p, tags) ==
    IF p.reader >= Len(input_dict)
    THEN [p |-> p, ok |-> TRUE, tag |-> "Eof", byte |-> 0]
    ELSE LET byte == input_dict[p.reader + 1]
             found_tag == from_byte(byte)
         IN  [p |-> [p EXCEPT !.reader = p.reader + 1],
              ok |-> found_tag \in tags,
              tag |-> found_tag,
              byte |-> byte]

\* read_string with a body cut short by the end of the input taken as the
\* whole string.
read_string_ShortBodyOk(p, buf) ==
    LET avail == Len(input_dict) - p.reader
    IN  IF avail < 4
        THEN [p |-> [p EXCEPT !.reader = Len(input_dict), ![buf] = <<>>], ok |-> FALSE]
        ELSE LET len == from_le_bytes(SubSeq(input_dict, p.reader + 1, p.reader + 4))
                 from == p.reader + 4
                 to == IF Len(input_dict) - from < len THEN Len(input_dict) ELSE from + len
             IN  [p |-> [p EXCEPT !.reader = to, ![buf] = SubSeq(input_dict, from + 1, to)],
                  ok |-> TRUE]

\* P4PyDictParser::read_string, with `buf` the field to fill.  read_exact that
\* meets end of input leaves the reader at the end; the buffer then holds
\* the bytes that were there, and no caller reads it.
read_string(p, buf) ==
    LET avail == Len(input_dict) - p.reader
    IN  IF avail < 4
        THEN [p |-> [p EXCEPT !.reader = Len(input_dict), ![buf] = <<>>], ok |-> FALSE]
        ELSE LET len == from_le_bytes(SubSeq(input_dict, p.reader + 1, p.reader + 4))
                 from == p.reader + 4
             IN  IF Len(input_dict) - from < len
                 THEN [p |-> [p EXCEPT !.reader = Len(input_dict),
                                       ![buf] = SubSeq(input_dict, from + 1, Len(input_dict))],
                       ok |-> FALSE]
                 ELSE [p |-> [p EXCEPT !.reader = from + len,
                                       ![buf] = SubSeq(input_dict, from + 1, from + len)],
                       ok |-> TRUE]

\* What advance hands back: res is "yield" (Ok(true)), "continue" (Ok(false)),
\* "InvalidTag", "UnexpectedEof" or "panic".  self.state is assigned only when
\* the match arm completes, so an error leaves it as it was.
AdvOk(p, st, yield) == [p |-> [p EXCEPT !.state = st], res |-> IF yield THEN "yield" ELSE "continue", byte |-> 0]

\* AdvErr with the decoder moved to Eof by the failure.
AdvErr_EntersEof(p, e, byte) == [p |-> [p EXCEPT !.state = "Eof"], res |-> e, byte |-> byte]

AdvErr(p, e, byte) == [p |-> p, res |-> e, byte |-> byte]

\* AdvanceRoot with the index left at 0 when a later record opens.
AdvanceRoot_NoIncrement(p) ==
    LET t == expect_tags(p, {"Dict", "Eof"})
    IN  IF ~t.ok THEN AdvErr(t.p, "InvalidTag", t.byte)
        ELSE CASE t.tag = "Dict" ->
                    AdvOk([t.p EXCEPT !.current_dict_index = Some(0)], "Dict", FALSE)
               [] t.tag = "Eof" -> AdvOk(t.p, "Eof", FALSE)
               [] OTHER -> AdvErr(t.p, "panic", 0)

\* AdvanceRoot with end of input reported as the UnexpectedEof error.
AdvanceRoot_EofIsError(p) ==
    LET t == expect_tags(p, {"Dict", "Eof"})
    IN  IF ~t.ok THEN AdvErr(t.p, "InvalidTag", t.byte)
        ELSE CASE t.tag = "Dict" ->
                    AdvOk([t.p EXCEPT !.current_dict_index =
                               IF is_none(p.current_dict_index)
                               THEN Some(0)
                               ELSE Some(p.current_dict_index[1] + 1)],
                          "Dict", FALSE)
               [] t.tag = "Eof" -> AdvErr(t.p, "UnexpectedEof", 0)
               [] OTHER -> AdvErr(t.p, "panic", 0)

\* advance, PyDictParseState::Root
AdvanceRoot(p) ==
    LET t == expect_tags(p, {"Dict", "Eof"})
    IN  IF ~t.ok THEN AdvErr(t.p, "InvalidTag", t.byte)
        ELSE CASE t.tag = "Dict" ->
                    AdvOk([t.p EXCEPT !.current_dict_index =
                               IF is_none(p.current_dict_index)
                               THEN Some(0)
                               ELSE Some(p.current_dict_index[1] + 1)],
                          "Dict", FALSE)
               [] t.tag = "Eof" -> AdvOk(t.p, "Eof", FALSE)
               [] OTHER -> AdvErr(t.p, "panic", 0)

\* advance, PyDictParseState::Dict
AdvanceDict(p) ==
    LET t == expect_tags(p, {"String", "Null"})
    IN  IF ~t.ok THEN AdvErr(t.p, "InvalidTag", t.byte)
        ELSE CASE t.tag = "String" -> AdvOk(t.p, "Key", FALSE)
               [] t.tag = "Null" -> AdvOk(t.p, "Root", FALSE)
               [] OTHER -> AdvErr(t.p, "panic", 0)

\* advance, PyDictParseState::Key
AdvanceKey(p) ==
    LET s == read_string(p, "current_key_buffer")
    IN  IF ~s.ok THEN AdvErr(s.p, "UnexpectedEof", 0)
        ELSE LET t == expect_tags(s.p, {"String"})
             IN  IF ~t.ok THEN AdvErr(t.p, "InvalidTag", t.byte)
                 ELSE AdvOk(t.p, "Value", FALSE)

\* AdvanceValue with the yield forgotten when the pair closes its record.
AdvanceValue_NoYieldAtClose(p) ==
    LET s == read_string(p, "current_value_buffer")
    IN  IF ~s.ok THEN AdvErr(s.p, "UnexpectedEof", 0)
        ELSE LET t == expect_tags(s.p, {"String", "Null"})
             IN  IF ~t.ok THEN AdvErr(t.p, "InvalidTag", t.byte)
                 ELSE CASE t.tag = "String" -> AdvOk(t.p, "Key", TRUE)
                        [] t.tag = "Null" -> AdvOk(t.p, "Root", FALSE)
                        [] OTHER -> AdvErr(t.p, "panic", 0)

\* advance, PyDictParseState::Value
AdvanceValue(p) ==
    LET s == read_string(p, "current_value_buffer")
    IN  IF ~s.ok THEN AdvErr(s.p, "UnexpectedEof", 0)
        ELSE LET t == expect_tags(s.p, {"String", "Null"})
             IN  IF ~t.ok THEN AdvErr(t.p, "InvalidTag", t.byte)
                 ELSE CASE t.tag = "String" -> AdvOk(t.p, "Key", TRUE)
                        [] t.tag = "Null" -> AdvOk(t.p, "Root", TRUE)
                        [] OTHER -> AdvErr(t.p, "panic", 0)

\* P4PyDictParser::advance
PyAdvance(p) ==
    CASE p.state = "Root" -> AdvanceRoot(p)
      [] p.state = "Dict" -> AdvanceDict(p)
      [] p.state = "Key" -> AdvanceKey(p)
      [] p.state = "Value" -> AdvanceValue(p)
      [] OTHER -> AdvErr(p, "panic", 0)

\* The kvp get_next_kvp builds when advance says yield: the unwraps abort on
\* a missing index and on bytes that are not UTF-8.
PyKvp(p) ==
    IF is_none(p.current_dict_index) \/ ~utf8_ok(p.current_key_buffer)
       \/ ~utf8_ok(p.current_value_buffer)
    THEN KvpPanic
    ELSE KvpSome(p.current_dict_index[1], p.current_key_buffer, p.current_value_buffer)

\* get_next_kvp with `loop` in place of `while self.state != Eof`.
RECURSIVE PyGetNextKvp_NoEofTest(_)
PyGetNextKvp_NoEofTest(p) ==
    LET a == PyAdvance(p)
    IN  CASE a.res = "yield" -> [p |-> a.p, ret |-> PyKvp(a.p)]
          [] a.res = "continue" ->
               IF a.p.state = "Eof" THEN [p |-> a.p, ret |-> KvpNone]
               ELSE PyGetNextKvp_NoEofTest(a.p)
          [] a.res = "panic" -> [p |-> a.p, ret |-> KvpPanic]
          [] OTHER -> [p |-> a.p, ret |-> KvpErr(a.res, a.byte)]

\* P4PyDictParser::get_next_kvp: the parser after the call and what it returned.
RECURSIVE PyGetNextKvp(_)
PyGetNextKvp(p) ==
    IF p.state = "Eof" THEN [p |-> p, ret |-> KvpNone]
    ELSE LET a == PyAdvance(p)
         IN  CASE a.res = "yield" -> [p |-> a.p, ret |-> PyKvp(a.p)]
               [] a.res = "continue" -> PyGetNextKvp(a.p)
               [] a.res = "panic" -> [p |-> a.p, ret |-> KvpPanic]
               [] OTHER -> [p |-> a.p, ret |-> KvpErr(a.res, a.byte)]

\* ---- the streams the binary decoder is run on

\* Keys and values of the pairs: "change", "k", and "10", "" as bytes.
PairPool ==
    {[key |-> <<107>>, value |-> <<49, 48>>],
     [key |-> <<99>>, value |-> <<>>]}

RecordsUpTo(nrec, npair) == SeqsUpTo(SeqsUpTo(PairPool, npair), nrec)

\* The bytes a position of the encoding is altered to: 'x' and a '0'.
FlipBytes == {120, TagNullByte}

\* The pulls a caller makes: every triple and two more.
PullCap(recs) == Len(Flatten(recs)) + 2

InitDict ==
    /\ \E recs \in RecordsUpTo(MaxRecords, MaxPairs) :
         /\ records_dict = recs
         /\ \/ damage_dict = "none" /\ input_dict = EncStream(recs)
            \/ /\ recs \in RecordsUpTo(MaxDamagedRecords, MaxDamagedPairs)
               /\ \E at \in 1..Len(EncStream(recs)) :
                    \/ /\ damage_dict = "cut"
                       /\ input_dict = SubSeq(EncStream(recs), 1, at - 1)
                    \/ /\ damage_dict = "flip"
                       /\ \E b \in FlipBytes \ {EncStream(recs)[at]} :
                            input_dict = [EncStream(recs) EXCEPT ![at] = b]
    /\ parser_dict = PyNew
    /\ crashed_dict = FALSE
    /\ out_dict = <<>>

IdleDict ==
    /\ records_dict = <<>>
    /\ damage_dict = "none"
    /\ input_dict = <<>>
    /\ parser_dict = PyNew
    /\ crashed_dict = FALSE
    /\ out_dict = <<>>

\* A caller's call of parser_dict.get_next_kvp().
DictPull ==
    /\ "parser_dict" \in live
    /\ ~crashed_dict
    /\ Len(out_dict) < PullCap(records_dict)
    /\ LET r == PyGetNextKvp(parser_dict)
       IN  /\ parser_dict' = r.p
           /\ out_dict' = Append(out_dict, r.ret)
           /\ crashed_dict' = (r.ret.kind = "Panic")
    /\ UNCHANGED <<live, input_dict, records_dict, damage_dict, vars_ztag, vars_iter>>

\* =================================================== parsers/ztag.rs

\* The bytes of '\n', '\r', ' ' and '.'.
LF == 10

CR == 13

SP == 32

DOT == 46

\* P4ZtagParser::PREFIX and PREFIX_LEN
PREFIX == <<DOT, DOT, DOT, SP>>

PREFIX_LEN == Len(PREFIX)

\* The key "desc", and P4ZtagParser::MULTILINE_VAR_PREFIXES ("... desc ")
KeyDesc == <<100, 101, 115, 99>>

MULTILINE_VAR_PREFIXES == {PREFIX \o KeyDesc \o <<SP>>}

\* ZtagParseState::is_record_complete
is_record_complete(state) == state \in {"Root", "SingleLineYield", "MultiLineYield", "EmptyLine"}

\* ZtagParseState::should_yield
should_yield(state) == state \in {"SingleLineYield", "MultiLineYield"}

\* P4ZtagParser::new
ZtagNew(dict_delimiter_key) ==
    [buffered_reader |-> 0,
     current_dict_index |-> None,
     state |-> "Root",
     line_buffer |-> <<>>,
     pending_line_buffer |-> None,
     dict_delimiter_key |-> dict_delimiter_key]

\* str::find(" "): the 0-based place of the first space of s, or None.
find_space(s) ==
    IF \E i \in 1..Len(s) : s[i] = SP
    THEN Some((CHOOSE i \in 1..Len(s) : s[i] = SP /\ \A j \in 1..(i - 1) : s[j] # SP) - 1)
    ELSE None

\* get_kvp_refs with a line without a space taken as a key with no value.
get_kvp_refs_NoSpaceIsKey(line_buffer) ==
    IF ~starts_with(line_buffer, PREFIX)
    THEN [res |-> "panic", key |-> <<>>, value |-> <<>>]
    ELSE [res |-> "ok",
          key |-> SubSeq(line_buffer, PREFIX_LEN + 1, Len(line_buffer) - 1),
          value |-> <<>>]

\* get_kvp_refs with the key's range handed back for the value as well.
get_kvp_refs_KeyEndsValue(line_buffer) ==
    IF ~starts_with(line_buffer, PREFIX)
    THEN [res |-> "panic", key |-> <<>>, value |-> <<>>]
    ELSE LET found == find_space(SubSeq(line_buffer, PREFIX_LEN + 1, Len(line_buffer)))
         IN  IF is_none(found)
             THEN [res |-> "InvalidData", key |-> <<>>, value |-> <<>>]
             ELSE [res |-> "ok",
                   key |-> SubSeq(line_buffer, PREFIX_LEN + 1, found[1] + PREFIX_LEN),
                   value |-> SubSeq(line_buffer, PREFIX_LEN + 1, found[1] + PREFIX_LEN)]

\* P4ZtagParser::get_kvp_refs: res is "ok", "InvalidData" or "panic" (the
\* assertion on the prefix, or a slice whose start is past its end).
get_kvp_refs(line_buffer) ==
    IF ~starts_with(line_buffer, PREFIX)
    THEN [res |-> "panic", key |-> <<>>, value |-> <<>>]
    ELSE LET found == find_space(SubSeq(line_buffer, PREFIX_LEN + 1, Len(line_buffer)))
             n == Len(line_buffer)
         IN  IF is_none(found)
             THEN [res |-> "InvalidData", key |-> <<>>, value |-> <<>>]
             ELSE LET key_end == found[1]
                      trim_index == IF SubSeq(line_buffer, n - 1, n) = <<CR, LF>>
                                    THEN n - 2
                                    ELSE n - 1
                      from == PREFIX_LEN + key_end + 1
                  IN  IF from > trim_index
                      THEN [res |-> "panic", key |-> <<>>, value |-> <<>>]
                      ELSE [res |-> "ok",
                            key |-> SubSeq(line_buffer, PREFIX_LEN + 1, key_end + PREFIX_LEN),
                            value |-> SubSeq(line_buffer, from + 1, trim_index)]

\* BufRead::read_line on the source: the next line, or <<>> at end of input.
read_line(z) ==
    IF z.buffered_reader < Len(input_ztag) THEN input_ztag[z.buffered_reader + 1] ELSE <<>>

\* The tail of advance: the state a line buffer that starts a field leads to.
AdvanceCommon(z) ==
    [z |-> z,
     state |-> IF \E prefix \in MULTILINE_VAR_PREFIXES : starts_with(z.line_buffer, prefix)
               THEN "MultiLineInternal"
               ELSE "SingleLineYield"]

\* advance, a pending line is taken
AdvancePending(z) ==
    AdvanceCommon([z EXCEPT !.line_buffer = z.pending_line_buffer[1],
                            !.pending_line_buffer = None])

\* advance, the record is complete: a new line is read
AdvanceNewRecord(z) ==
    LET line == read_line(z)
        z1 == [z EXCEPT !.line_buffer = line,
                        !.buffered_reader = IF line = <<>> THEN @ ELSE @ + 1]
    IN  IF Len(line) = 0 THEN [z |-> z1, state |-> "Eof"]
        ELSE IF Len(line) = 1 /\ line[1] = LF THEN [z |-> z1, state |-> "EmptyLine"]
        ELSE AdvanceCommon(z1)

\* AdvanceLookahead with the line that ends the multi-line value not kept.
AdvanceLookahead_DropsLookahead(z) ==
    LET next_line == read_line(z)
        z1 == [z EXCEPT !.buffered_reader = IF next_line = <<>> THEN @ ELSE @ + 1]
    IN  IF Len(next_line) = 0 \/ starts_with(next_line, PREFIX)
        THEN [z |-> z1, state |-> "MultiLineYield"]
        ELSE AdvanceCommon([z1 EXCEPT !.line_buffer = z.line_buffer \o next_line])

\* advance, inside a multi-line value: one line of lookahead
AdvanceLookahead(z) ==
    LET next_line == read_line(z)
        z1 == [z EXCEPT !.buffered_reader = IF next_line = <<>> THEN @ ELSE @ + 1]
    IN  IF Len(next_line) = 0 THEN [z |-> z1, state |-> "MultiLineYield"]
        ELSE IF starts_with(next_line, PREFIX)
        THEN [z |-> [z1 EXCEPT !.pending_line_buffer = Some(next_line)],
              state |-> "MultiLineYield"]
        ELSE AdvanceCommon([z1 EXCEPT !.line_buffer = z.line_buffer \o next_line])

\* P4ZtagParser::advance: the parser and the state it returns, or state
\* "panic" when the assertion that the state is not Eof fails.
ZtagAdvance(z) ==
    IF z.state = "Eof" THEN [z |-> z, state |-> "panic"]
    ELSE IF is_some(z.pending_line_buffer) THEN AdvancePending(z)
    ELSE IF is_record_complete(z.state) THEN AdvanceNewRecord(z)
    ELSE AdvanceLookahead(z)

\* NextDictIndex with the first sighting of the delimiter key counted as 1.
NextDictIndex_FromOne(z, key) ==
    IF Some(key) = z.dict_delimiter_key
    THEN IF is_none(z.current_dict_index)
         THEN Some(1)
         ELSE Some(z.current_dict_index[1] + 1)
    ELSE z.current_dict_index

\* NextDictIndex with the comparison against the delimiter key left out.
NextDictIndex_AnyKey(z, key) ==
    IF is_none(z.current_dict_index)
    THEN Some(0)
    ELSE Some(z.current_dict_index[1] + 1)

\* get_next_kvp, the index a yielded key leaves in current_dict_index
NextDictIndex(z, key) ==
    IF Some(key) = z.dict_delimiter_key
    THEN IF is_none(z.current_dict_index)
         THEN Some(0)
         ELSE Some(z.current_dict_index[1] + 1)
    ELSE z.current_dict_index

\* get_next_kvp, the body of the branch taken when the state should yield
ZtagYield(z) ==
    LET kv == get_kvp_refs(z.line_buffer)
    IN  CASE kv.res = "panic" -> [z |-> z, ret |-> KvpPanic]
          [] kv.res = "InvalidData" -> [z |-> z, ret |-> KvpErr("InvalidData", 0)]
          [] OTHER ->
               LET z1 == [z EXCEPT !.current_dict_index = NextDictIndex(z, kv.key)]
               IN  [z |-> z1,
                    ret |-> KvpSome(unwrap_or(z1.current_dict_index, 0), kv.key, kv.value)]

\* P4ZtagParser::get_next_kvp: the parser after the call and what it returned.
RECURSIVE ZtagGetNextKvp(_)
ZtagGetNextKvp(z) ==
    LET a == ZtagAdvance(z)
    IN  IF a.state = "panic" THEN [z |-> a.z, ret |-> KvpPanic]
        ELSE LET z1 == [a.z EXCEPT !.state = a.state]
             IN  IF should_yield(z1.state) THEN ZtagYield(z1)
                 ELSE IF z1.state = "Eof" THEN [z |-> z1, ret |-> KvpNone]
                 ELSE ZtagGetNextKvp(z1)

\* ---- the line sources the text decoder is run on

\* "... " key " " value terminator
FieldLine(key, value, term) == PREFIX \o key \o <<SP>> \o value \o term

KeyC == <<99>>

KeyZ == <<122>>

\* The lines that end with a terminator:
\*   "... c 12\n"  "... desc A\n"  "... z b c\r\n"  "B\n"  "\n"  "\r\n"  "... bad\n"
TerminatedLines ==
    {FieldLine(KeyC, <<49, 50>>, <<LF>>),
     FieldLine(KeyDesc, <<65>>, <<LF>>),
     FieldLine(KeyZ, <<98, SP, 99>>, <<CR, LF>>),
     <<66, LF>>,
     <<LF>>,
     <<CR, LF>>,
     PREFIX \o <<98, 97, 100, LF>>}

\* The lines a source can end with when its last line has no terminator:
\*   "... c 12"  "... desc A"  "B"  "... c "  "... desc "
UnterminatedLines ==
    {FieldLine(KeyC, <<49, 50>>, <<>>),
     FieldLine(KeyDesc, <<65>>, <<>>),
     <<66>>,
     FieldLine(KeyC, <<>>, <<>>),
     FieldLine(KeyDesc, <<>>, <<>>)}

\* lines in a text stream
MaxLines == 4

LineSources(n) ==
    SeqsUpTo(TerminatedLines, n)
    \cup {Append(ls, l) : ls \in SeqsUpTo(TerminatedLines, n - 1), l \in UnterminatedLines}

DelimiterKeys == {None, Some(KeyDesc), Some(KeyC)}

\* The input of tests::test_ztag_parsing, line by line:
\*   '... changeType public\n'
\*   '... change 12345\n'
\*   '... desc BLAHBLAH\n'
\*   'BLAHBLAH\n'
\*   '... zambo aaa\n'
\*   '... zoop bbb\n'
\*   '\n'
\*   '... desc WOOWOO\n'
\*   'WOWWOW\n'
\*   '... desc SNASNA\n'
\*   '... desc SNASNA2\n'
SampleLines ==
    <<<<46, 46, 46, 32, 99, 104, 97, 110, 103, 101, 84, 121, 112, 101, 32, 112, 117, 98, 108, 105, 99, 10>>,
      <<46, 46, 46, 32, 99, 104, 97, 110, 103, 101, 32, 49, 50, 51, 52, 53, 10>>,
      <<46, 46, 46, 32, 100, 101, 115, 99, 32, 66, 76, 65, 72, 66, 76, 65, 72, 10>>,
      <<66, 76, 65, 72, 66, 76, 65, 72, 10>>,
      <<46, 46, 46, 32, 122, 97, 109, 98, 111, 32, 97, 97, 97, 10>>,
      <<46, 46, 46, 32, 122, 111, 111, 112, 32, 98, 98, 98, 10>>,
      <<10>>,
      <<46, 46, 46, 32, 100, 101, 115, 99, 32, 87, 79, 79, 87, 79, 79, 10>>,
      <<87, 79, 87, 87, 79, 87, 10>>,
      <<46, 46, 46, 32, 100, 101, 115, 99, 32, 83, 78, 65, 83, 78, 65, 10>>,
      <<46, 46, 46, 32, 100, 101, 115, 99, 32, 83, 78, 65, 83, 78, 65, 50, 10>>>>

\* What tests::test_ztag_parsing expects get_next_kvp to return on it, with
\* the delimiter key "desc": (dict_index, key, value)
\*   (0, changeType, 'public')
\*   (0, change, '12345')
\*   (0, desc, 'BLAHBLAH\nBLAHBLAH')
\*   (1, zambo, 'aaa')
\*   (1, zoop, 'bbb')
\*   (1, desc, 'WOOWOO\nWOWWOW')
\*   (2, desc, 'SNASNA')
\*   (3, desc, 'SNASNA2')
SampleExpected ==
    <<KvpSome(0, <<99, 104, 97, 110, 103, 101, 84, 121, 112, 101>>, <<112, 117, 98, 108, 105, 99>>),
      KvpSome(0, <<99, 104, 97, 110, 103, 101>>, <<49, 50, 51, 52, 53>>),
      KvpSome(0, <<100, 101, 115, 99>>, <<66, 76, 65, 72, 66, 76, 65, 72, 10, 66, 76, 65, 72, 66, 76, 65, 72>>),
      KvpSome(1, <<122, 97, 109, 98, 111>>, <<97, 97, 97>>),
      KvpSome(1, <<122, 111, 111, 112>>, <<98, 98, 98>>),
      KvpSome(1, <<100, 101, 115, 99>>, <<87, 79, 79, 87, 79, 79, 10, 87, 79, 87, 87, 79, 87>>),
      KvpSome(2, <<100, 101, 115, 99>>, <<83, 78, 65, 83, 78, 65>>),
      KvpSome(3, <<100, 101, 115, 99>>, <<83, 78, 65, 83, 78, 65, 50>>)>>

InitZtag ==
    /\ \/ /\ input_ztag \in LineSources(MaxLines)
          /\ \E k \in DelimiterKeys : parser_ztag = ZtagNew(k)
       \/ /\ input_ztag = SampleLines
          /\ parser_ztag = ZtagNew(Some(KeyDesc))
    /\ crashed_ztag = FALSE
    /\ out_ztag = <<>>

IdleZtag ==
    /\ input_ztag = <<>>
    /\ parser_ztag = ZtagNew(None)
    /\ crashed_ztag = FALSE
    /\ out_ztag = <<>>

\* A caller's call of parser_ztag.get_next_kvp().
ZtagPull ==
    /\ "parser_ztag" \in live
    /\ ~crashed_ztag
    /\ Len(out_ztag) < Len(input_ztag) + 2
    /\ LET r == ZtagGetNextKvp(parser_ztag)
       IN  /\ parser_ztag' = r.z
           /\ out_ztag' = Append(out_ztag, r.ret)
           /\ crashed_ztag' = (r.ret.kind = "Panic")
    /\ UNCHANGED <<live, input_ztag, vars_dict, vars_iter>>

\* ---- the same records in both wire forms (as tests::validate_parsers reads
\* ---- changes.pyc and changes.ztag)

\* "code" -> "stat", the pair that opens each record of the binary form only
CodePair == [key |-> <<99, 111, 100, 101>>, value |-> <<115, 116, 97, 116>>]

\* The records: "c" -> "12" alone, or followed by "z" -> "b", or by
\* "desc" -> "A", the last field of a record of changes.pyc (there "Test3")
PairedRecordPool ==
    {<<[key |-> KeyC, value |-> <<49, 50>>]>>,
     <<[key |-> KeyC, value |-> <<49, 50>>], [key |-> KeyZ, value |-> <<98>>]>>,
     <<[key |-> KeyC, value |-> <<49, 50>>], [key |-> KeyDesc, value |-> <<65>>]>>}

\* records in a stream given in both wire forms
MaxPairedRecords == 2

\* The text form of a record: a line per pair, then a blank line.
ZtagRecord(rec) == [i \in 1..Len(rec) |-> FieldLine(rec[i].key, rec[i].value, <<LF>>)] \o <<(<<LF>>)>>

ZtagStream(recs) == Flatten([i \in 1..Len(recs) |-> ZtagRecord(recs[i])])

InitBoth ==
    /\ live = {"parser_dict", "parser_ztag"}
    /\ \E recs \in SeqsUpTo(PairedRecordPool, MaxPairedRecords) :
         /\ records_dict = [i \in 1..Len(recs) |-> <<CodePair>> \o recs[i]]
         /\ input_dict = EncStream(records_dict)
         /\ input_ztag = ZtagStream(recs)
    /\ damage_dict = "none"
    /\ parser_dict = PyNew
    /\ crashed_dict = FALSE
    /\ out_dict = <<>>
    /\ parser_ztag = ZtagNew(Some(KeyC))
    /\ crashed_ztag = FALSE
    /\ out_ztag = <<>>

\* =================================================== lib.rs
\* A number parsed from text is modelled by its decimal digits without
\* leading zeros, so that u32 and u64 keep their full range.

\* u32::MAX and u64::MAX
U32_MAX == <<52, 50, 57, 52, 57, 54, 55, 50, 57, 53>>

U64_MAX == <<49, 56, 52, 52, 54, 55, 52, 52, 48, 55, 51, 55, 48, 57, 53, 53, 49, 54, 49, 53>>

is_digit(b) == b \in 48..57

RECURSIVE strip_zeros(_)
strip_zeros(s) == IF Len(s) > 1 /\ s[1] = 48 THEN strip_zeros(Tail(s)) ELSE s

\* a <= b for digit sequences without leading zeros
RECURSIVE digits_leq(_, _)
digits_leq(a, b) ==
    IF Len(a) # Len(b) THEN Len(a) < Len(b)
    ELSE IF a = <<>> THEN TRUE
    ELSE IF a[1] # b[1] THEN a[1] < b[1]
    ELSE digits_leq(Tail(a), Tail(b))

\* str::parse::<u32>() and ::<u64>(): an optional '+', then one digit or more,
\* no other byte, and a value that fits; None is the Err.
parse(s, max) ==
    LET body == IF s # <<>> /\ s[1] = 43 THEN Tail(s) ELSE s
    IN  IF body # <<>> /\ (\A i \in 1..Len(body) : is_digit(body[i]))
           /\ digits_leq(strip_zeros(body), max)
        THEN Some(strip_zeros(body))
        ELSE None

\* InterimP4Changelist::default()
InterimP4Changelist ==
    [change |-> None, time |-> None, user |-> None, description |-> None, files |-> <<>>]

\* InterimP4File::default()
InterimP4File ==
    [depot_path |-> None, action |-> None, revision |-> None, file_size |-> None, digest |-> None]

\* What a conversion gives: Ok(value) or Err(err)
ConvOk(v) == [ok |-> TRUE, value |-> v, err |-> ""]

ConvErr(e) == [ok |-> FALSE, value |-> <<>>, err |-> e]

\* changelist_try_into that looks at the description before the other fields.
changelist_try_into_DescriptionFirst(c) ==
    IF is_none(c.description) THEN ConvErr("Missing description")
    ELSE IF is_none(c.change) THEN ConvErr("Missing changelist")
    ELSE IF is_none(c.time) THEN ConvErr("Missing time")
    ELSE IF is_none(c.user) THEN ConvErr("Missing user")
    ELSE ConvOk([changelist |-> c.change[1], time |-> c.time[1], user |-> c.user[1],
                 description |-> c.description[1], files |-> c.files])

\* changelist_try_into that fills an absent description with the empty text.
changelist_try_into_DefaultDescription(c) ==
    IF is_none(c.change) THEN ConvErr("Missing changelist")
    ELSE IF is_none(c.time) THEN ConvErr("Missing time")
    ELSE IF is_none(c.user) THEN ConvErr("Missing user")
    ELSE ConvOk([changelist |-> c.change[1], time |-> c.time[1], user |-> c.user[1],
                 description |-> unwrap_or(c.description, <<>>), files |-> c.files])

\* TryInto<P4Changelist> for InterimP4Changelist
changelist_try_into(c) ==
    IF is_none(c.change) THEN ConvErr("Missing changelist")
    ELSE IF is_none(c.time) THEN ConvErr("Missing time")
    ELSE IF is_none(c.user) THEN ConvErr("Missing user")
    ELSE IF is_none(c.description) THEN ConvErr("Missing description")
    ELSE ConvOk([changelist |-> c.change[1], time |-> c.time[1], user |-> c.user[1],
                 description |-> c.description[1], files |-> c.files])

\* TryInto<P4File> for InterimP4File
file_try_into(f) ==
    IF is_none(f.depot_path) THEN ConvErr("Missing depot path")
    ELSE IF is_none(f.action) THEN ConvErr("Missing action")
    ELSE IF is_none(f.revision) THEN ConvErr("Missing revision")
    ELSE IF is_none(f.file_size) THEN ConvErr("Missing file size")
    ELSE IF is_none(f.digest) THEN ConvErr("Missing digest")
    ELSE ConvOk([depot_path |-> f.depot_path[1], action |-> f.action[1],
                 revision |-> f.revision[1], file_size |-> f.file_size[1],
                 digest |-> f.digest[1]])

\* str::find(char::is_numeric) on ASCII text: the 0-based place of the first
\* digit of key, or None.
find_numeric(key) ==
    IF \E i \in 1..Len(key) : is_digit(key[i])
    THEN Some((CHOOSE i \in 1..Len(key) : is_digit(key[i]) /\ \A j \in 1..(i - 1) : ~is_digit(key[j])) - 1)
    ELSE None

\* split_indexed_key: res is "None", "Some" (key and index) or "panic" (the
\* unwrap of a suffix that is not a u32).
split_indexed_key(key) ==
    LET first_num_index == find_numeric(key)
    IN  IF is_none(first_num_index)
        THEN [res |-> "None", key |-> <<>>, index |-> <<>>]
        ELSE LET index == parse(SubSeq(key, first_num_index[1] + 1, Len(key)), U32_MAX)
             IN  IF is_none(index)
                 THEN [res |-> "panic", key |-> <<>>, index |-> <<>>]
                 ELSE [res |-> "Some", key |-> SubSeq(key, 1, first_num_index[1]),
                       index |-> index[1]]

\* What a call of next returned: Some(item), None, or a panic with its text;
\* taken is the accumulator the call took with std::mem::take, if it took one.
ItemSome(x) == [kind |-> "Some", item |-> Some(x), err |-> "", taken |-> None]

ItemNone == [kind |-> "None", item |-> None, err |-> "", taken |-> None]

ItemPanic(e) == [kind |-> "Panic", item |-> None, err |-> e, taken |-> None]

Finalized(ret, accumulator) == [ret EXCEPT !.taken = Some(accumulator)]

\* =================================================== changes.rs

KeyChange == <<99, 104, 97, 110, 103, 101>>

KeyTime == <<116, 105, 109, 101>>

KeyUser == <<117, 115, 101, 114>>

\* P4ChangesIterator::new_from_reader, the fields beside the parser
ChangesNew == [previous_dict_index |-> Some(0), current_change |-> InterimP4Changelist]

\* populate_field that files the value of an unknown key as the description.
ChangesPopulateField_UnknownAsDesc(change, key, value) ==
    CASE key = KeyChange ->
           [ok |-> is_some(parse(value, U32_MAX)),
            change |-> [change EXCEPT !.change = parse(value, U32_MAX)]]
      [] key = KeyTime ->
           [ok |-> is_some(parse(value, U32_MAX)),
            change |-> [change EXCEPT !.time = parse(value, U32_MAX)]]
      [] key = KeyUser -> [ok |-> TRUE, change |-> [change EXCEPT !.user = Some(value)]]
      [] OTHER -> [ok |-> TRUE, change |-> [change EXCEPT !.description = Some(value)]]

\* P4ChangesIterator::populate_field: ok is FALSE when an unwrap panics.
ChangesPopulateField(change, key, value) ==
    CASE key = KeyChange ->
           [ok |-> is_some(parse(value, U32_MAX)),
            change |-> [change EXCEPT !.change = parse(value, U32_MAX)]]
      [] key = KeyTime ->
           [ok |-> is_some(parse(value, U32_MAX)),
            change |-> [change EXCEPT !.time = parse(value, U32_MAX)]]
      [] key = KeyUser -> [ok |-> TRUE, change |-> [change EXCEPT !.user = Some(value)]]
      [] key = KeyDesc -> [ok |-> TRUE, change |-> [change EXCEPT !.description = Some(value)]]
      [] OTHER -> [ok |-> TRUE, change |-> change]

\* What next and its loop hand back: the iterator's fields, its parser, the
\* results of the pulls made on the parser, and what next returns.
NextRet(it, p, pulls, ret) == [it |-> it, p |-> p, pulls |-> pulls, ret |-> ret]

\* ChangesNewRecord with the triple applied before the open changelist is taken.
ChangesNewRecord_PopulateFirst(it, p, pulls, kvp) ==
    LET field == ChangesPopulateField(it.current_change, kvp.key, kvp.value)
        change == changelist_try_into(field.change)
        taken == [it EXCEPT !.current_change = InterimP4Changelist]
    IN  IF ~field.ok THEN NextRet(it, p, pulls, ItemPanic("parse"))
        ELSE IF ~change.ok
        THEN NextRet(taken, p, pulls, Finalized(ItemPanic(change.err), field.change))
        ELSE NextRet([taken EXCEPT !.previous_dict_index = Some(kvp.dict_index)], p, pulls,
                     Finalized(ItemSome(change.value), field.change))

\* next, the branch of the loop for a triple of another record
ChangesNewRecord(it, p, pulls, kvp) ==
    LET change == changelist_try_into(it.current_change)
        taken == [it EXCEPT !.current_change = InterimP4Changelist]
        field == ChangesPopulateField(InterimP4Changelist, kvp.key, kvp.value)
        it1 == [previous_dict_index |-> Some(kvp.dict_index), current_change |-> field.change]
    IN  IF ~change.ok
        THEN NextRet(taken, p, pulls, Finalized(ItemPanic(change.err), it.current_change))
        ELSE IF ~field.ok
        THEN NextRet([taken EXCEPT !.previous_dict_index = Some(kvp.dict_index)], p, pulls,
                     Finalized(ItemPanic("parse"), it.current_change))
        ELSE NextRet(it1, p, pulls, Finalized(ItemSome(change.value), it.current_change))

\* ChangesAtEnd with previous_dict_index left as it is after the final changelist.
ChangesAtEnd_KeepsIndex(it, p, pulls) ==
    IF is_some(it.previous_dict_index)
    THEN LET change == changelist_try_into(it.current_change)
             taken == [it EXCEPT !.current_change = InterimP4Changelist]
         IN  IF ~change.ok
             THEN NextRet(taken, p, pulls, Finalized(ItemPanic(change.err), it.current_change))
             ELSE NextRet(taken, p, pulls, Finalized(ItemSome(change.value), it.current_change))
    ELSE NextRet(it, p, pulls, ItemNone)

\* next, after the loop: the final changelist, then None
ChangesAtEnd(it, p, pulls) ==
    IF is_some(it.previous_dict_index)
    THEN LET change == changelist_try_into(it.current_change)
             taken == [it EXCEPT !.current_change = InterimP4Changelist]
         IN  IF ~change.ok
             THEN NextRet(taken, p, pulls, Finalized(ItemPanic(change.err), it.current_change))
             ELSE NextRet([taken EXCEPT !.previous_dict_index = None], p, pulls,
                          Finalized(ItemSome(change.value), it.current_change))
    ELSE NextRet(it, p, pulls, ItemNone)

RECURSIVE ChangesIteratorNext(_, _, _)

\* next, the body of the loop and what follows it, with r the parser after
\* get_next_kvp and what it returned
ChangesLoop(it, r, pulls) ==
    LET kvp == r.ret
        log == Append(pulls, r.ret)
    IN  CASE kvp.kind = "Some" ->
               IF Some(kvp.dict_index) # it.previous_dict_index
               THEN ChangesNewRecord(it, r.p, log, kvp)
               ELSE LET field == ChangesPopulateField(it.current_change, kvp.key, kvp.value)
                    IN  IF ~field.ok THEN NextRet(it, r.p, log, ItemPanic("parse"))
                        ELSE ChangesIteratorNext([it EXCEPT !.current_change = field.change],
                                                 r.p, log)
          [] kvp.kind = "None" -> ChangesAtEnd(it, r.p, log)
          [] OTHER -> NextRet(it, r.p, log, ItemPanic("get_next_kvp"))

\* Iterator::next for P4ChangesIterator
ChangesIteratorNext(it, p, pulls) == ChangesLoop(it, PyGetNextKvp(p), pulls)

\* =================================================== describe.rs

KeyDepotFile == <<100, 101, 112, 111, 116, 70, 105, 108, 101>>

KeyAction == <<97, 99, 116, 105, 111, 110>>

KeyRev == <<114, 101, 118>>

KeyFileSize == <<102, 105, 108, 101, 83, 105, 122, 101>>

KeyDigest == <<100, 105, 103, 101, 115, 116>>

\* The value of a hexadecimal digit, or 16 for any other byte.
hex_value(b) ==
    CASE b \in 48..57 -> b - 48
      [] b \in 97..102 -> b - 87
      [] b \in 65..70 -> b - 55
      [] OTHER -> 16

\* const_hex::decode_to_array::<_, 16>: an optional "0x", then 32 hexadecimal
\* digits, two for each byte of the array; None is the Err.
decode_to_array(value) ==
    LET hex == IF starts_with(value, <<48, 120>>) THEN SubSeq(value, 3, Len(value)) ELSE value
    IN  IF Len(hex) = 32 /\ \A i \in 1..32 : hex_value(hex[i]) < 16
        THEN Some([i \in 1..16 |-> 16 * hex_value(hex[2 * i - 1]) + hex_value(hex[2 * i])])
        ELSE None

\* P4DescribeIterator::populate_field: ok is FALSE when an unwrap panics.
DescribePopulateField(file, key, value) ==
    CASE key = KeyDepotFile -> [ok |-> TRUE, file |-> [file EXCEPT !.depot_path = Some(value)]]
      [] key = KeyAction -> [ok |-> TRUE, file |-> [file EXCEPT !.action = Some(value)]]
      [] key = KeyRev ->
           [ok |-> is_some(parse(value, U32_MAX)),
            file |-> [file EXCEPT !.revision = parse(value, U32_MAX)]]
      [] key = KeyFileSize ->
           [ok |-> is_some(parse(value, U64_MAX)),
            file |-> [file EXCEPT !.file_size = parse(value, U64_MAX)]]
      [] key = KeyDigest ->
           [ok |-> is_some(decode_to_array(value)),
            file |-> [file EXCEPT !.digest = decode_to_array(value)]]
      [] OTHER -> [ok |-> TRUE, file |-> file]

\* What new_from_reader hands back: built is "Ok", "Err" (with err) or
\* "Panic"; with "Ok" the other fields are those of the iterator.
DescribeBuilt(built, err, changelist, index, file) ==
    [built |-> built, err |-> err, changelist |-> changelist,
     current_file_index |-> index, current_file |-> file]

\* DescribeHeaderDone with the conversion of the header unwrapped.
DescribeHeaderDone_Unwraps(change, index, file) ==
    LET changelist == changelist_try_into(change)
    IN  IF changelist.ok THEN DescribeBuilt("Ok", "", Some(changelist.value), index, file)
        ELSE DescribeBuilt("Panic", "", None, None, InterimP4File)

\* DescribeHeaderDone with the pair that ended the header left out of the
\* first file.
DescribeHeaderDone_FreshFile(change, index, file) ==
    LET changelist == changelist_try_into(change)
    IN  IF changelist.ok
        THEN DescribeBuilt("Ok", "", Some(changelist.value), index, InterimP4File)
        ELSE DescribeBuilt("Err", changelist.err, None, None, InterimP4File)

\* new_from_reader, after the loop over the header
DescribeHeaderDone(change, index, file) ==
    LET changelist == changelist_try_into(change)
    IN  IF changelist.ok THEN DescribeBuilt("Ok", "", Some(changelist.value), index, file)
        ELSE DescribeBuilt("Err", changelist.err, None, None, InterimP4File)

\* new_from_reader, a header field that is a number
DescribeHeaderNumber(change, field, value) ==
    [ok |-> is_some(parse(value, U32_MAX)), change |-> [change EXCEPT ![field] = parse(value, U32_MAX)]]

RECURSIVE DescribeNewFromReader(_, _, _)

\* new_from_reader, the body of the loop over the header and what follows
\* it, with r the parser after get_next_kvp and what it returned
DescribeHeaderLoop(change, r, pulls) ==
    LET kvp == r.ret
        log == Append(pulls, r.ret)
        panic == [it |-> DescribeBuilt("Panic", "", None, None, InterimP4File), p |-> r.p, pulls |-> log]
    IN  CASE kvp.kind = "Some" ->
               CASE kvp.key \in {KeyChange, KeyTime} ->
                      LET field == DescribeHeaderNumber(change,
                                       IF kvp.key = KeyChange THEN "change" ELSE "time", kvp.value)
                      IN  IF field.ok THEN DescribeNewFromReader(field.change, r.p, log)
                          ELSE panic
                 [] kvp.key = KeyUser ->
                      DescribeNewFromReader([change EXCEPT !.user = Some(kvp.value)], r.p, log)
                 [] kvp.key = KeyDesc ->
                      DescribeNewFromReader([change EXCEPT !.description = Some(kvp.value)], r.p, log)
                 [] OTHER ->
                      LET split == split_indexed_key(kvp.key)
                          field == DescribePopulateField(InterimP4File, split.key, kvp.value)
                      IN  CASE split.res = "None" -> DescribeNewFromReader(change, r.p, log)
                            [] split.res = "Some" /\ field.ok ->
                                 [it |-> DescribeHeaderDone(change, Some(split.index), field.file),
                                  p |-> r.p, pulls |-> log]
                            [] OTHER -> panic
          [] kvp.kind = "None" ->
               [it |-> DescribeHeaderDone(change, None, InterimP4File), p |-> r.p, pulls |-> log]
          [] OTHER -> panic

\* P4DescribeIterator::new_from_reader, from the loop over the header on
DescribeNewFromReader(change, p, pulls) == DescribeHeaderLoop(change, PyGetNextKvp(p), pulls)

\* next, the branch of the loop for a pair of another file
DescribeNewFile(it, p, pulls, split, value) ==
    LET file == file_try_into(it.current_file)
        taken == [it EXCEPT !.current_file_index = Some(split.index),
                            !.current_file = InterimP4File]
        field == DescribePopulateField(InterimP4File, split.key, value)
    IN  IF ~file.ok
        THEN NextRet(taken, p, pulls, Finalized(ItemPanic(file.err), it.current_file))
        ELSE IF ~field.ok
        THEN NextRet(taken, p, pulls, Finalized(ItemPanic("parse"), it.current_file))
        ELSE NextRet([taken EXCEPT !.current_file = field.file], p, pulls,
                     Finalized(ItemSome(file.value), it.current_file))

\* next, after the loop: the last file, then None
DescribeAtEnd(it, p, pulls) ==
    IF is_some(it.current_file_index)
    THEN LET file == file_try_into(it.current_file)
             taken == [it EXCEPT !.current_file = InterimP4File]
         IN  IF ~file.ok
             THEN NextRet(taken, p, pulls, Finalized(ItemPanic(file.err), it.current_file))
             ELSE NextRet([taken EXCEPT !.current_file_index = None], p, pulls,
                          Finalized(ItemSome(file.value), it.current_file))
    ELSE NextRet(it, p, pulls, ItemNone)

RECURSIVE DescribeIteratorNext(_, _, _)

\* next, the body of the loop and what follows it, with r the parser after
\* get_next_kvp and what it returned
DescribeLoop(it, r, pulls) ==
    LET kvp == r.ret
        log == Append(pulls, r.ret)
    IN  CASE kvp.kind = "Some" ->
               LET split == split_indexed_key(kvp.key)
               IN  CASE split.res = "Some" ->
                          IF Some(split.index) # it.current_file_index
                          THEN DescribeNewFile(it, r.p, log, split, kvp.value)
                          ELSE LET field == DescribePopulateField(it.current_file, split.key, kvp.value)
                               IN  IF ~field.ok THEN NextRet(it, r.p, log, ItemPanic("parse"))
                                   ELSE DescribeIteratorNext([it EXCEPT !.current_file = field.file],
                                                             r.p, log)
                     [] split.res = "None" ->
                          NextRet(it, r.p, log, ItemPanic("Unexpected key format"))
                     [] OTHER -> NextRet(it, r.p, log, ItemPanic("parse"))
          [] kvp.kind = "None" -> DescribeAtEnd(it, r.p, log)
          [] OTHER -> NextRet(it, r.p, log, ItemPanic("get_next_kvp"))

\* Iterator::next for P4DescribeIterator
DescribeIteratorNext(it, p, pulls) == DescribeLoop(it, PyGetNextKvp(p), pulls)

\* ---- the streams the iterators are run on

\* records in a stream given to P4ChangesIterator
MaxChangeRecords == 3

\* The fields of record number v of `p4 changes -l`: change v, time 5v,
\* user uv, desc "Dv\n"
ChangeFields(v) ==
    <<[key |-> KeyChange, value |-> <<48 + v>>],
      [key |-> KeyTime, value |-> <<53, 48 + v>>],
      [key |-> KeyUser, value |-> <<117, 48 + v>>],
      [key |-> KeyDesc, value |-> <<68, 48 + v, LF>>]>>

\* s without its d-th element (s itself when d is 0)
Drop(s, d) == SubSeq(s, 1, IF d = 0 THEN Len(s) ELSE d - 1) \o SubSeq(s, IF d = 0 THEN Len(s) + 1 ELSE d + 1, Len(s))

\* The shapes of a record: no pair at all, or the four fields or all but one
\* of them, behind the "code" pair or not, or (drop 5) change and user alone.
ChangeShapes == {<<>>, <<FALSE, 5>>} \cup {<<code, drop>> : code \in BOOLEAN, drop \in 0..4}

ChangeRecord(shape, v) ==
    IF shape = <<>> THEN <<>>
    ELSE IF shape[2] = 5 THEN <<ChangeFields(v)[1], ChangeFields(v)[3]>>
    ELSE (IF shape[1] THEN <<CodePair>> ELSE <<>>) \o Drop(ChangeFields(v), shape[2])

IdleChanges ==
    /\ changes_iter = ChangesNew
    /\ out_changes = <<>>

InitChanges ==
    /\ \E shapes \in SeqsUpTo(ChangeShapes, MaxChangeRecords) :
         records_dict = [v \in 1..Len(shapes) |-> ChangeRecord(shapes[v], v)]
    /\ input_dict = EncStream(records_dict)
    /\ damage_dict = "none"
    /\ parser_dict = PyNew
    /\ crashed_dict = FALSE
    /\ out_dict = <<>>
    /\ IdleChanges

Panicked(out) == out # <<>> /\ out[Len(out)].kind = "Panic"

\* calls of next that a caller makes after next has returned None
MaxCallsAfterNone == 1

\* The caller goes on calling next.
Calling(out) == Len(SelectSeq(out, LAMBDA r : r.kind = "None")) <= MaxCallsAfterNone

\* The state after a call of changes_iter.next() that ended as r says.
ChangesReturns(r) ==
    /\ changes_iter' = r.it
    /\ parser_dict' = r.p
    /\ out_dict' = out_dict \o r.pulls
    /\ crashed_dict' = Panicked(r.pulls)
    /\ out_changes' = Append(out_changes, r.ret)

\* A caller's call of changes_iter.next().
ChangesNext ==
    /\ "changes_iter" \in live
    /\ ~Panicked(out_changes)
    /\ Calling(out_changes)
    /\ ChangesReturns(ChangesIteratorNext(changes_iter, parser_dict, <<>>))
    /\ UNCHANGED <<live, input_dict, records_dict, damage_dict, vars_ztag,
                   describe_iter, out_describe>>

\* groups of pairs after the header of a stream given to P4DescribeIterator
MaxSegments == 3

KeyType == <<116, 121, 112, 101>>

KeyPath == <<112, 97, 116, 104>>

\* The header of `p4 describe -s`: change 7, time 50, user u, desc "D\n"
HeaderFields ==
    <<[key |-> KeyChange, value |-> <<55>>],
      [key |-> KeyTime, value |-> <<53, 48>>],
      [key |-> KeyUser, value |-> <<117>>],
      [key |-> KeyDesc, value |-> <<68, LF>>]>>

\* The headers: the four fields behind the "code" pair, the four fields alone,
\* and the header without its description.
Headers == {<<CodePair>> \o HeaderFields, HeaderFields, <<CodePair>> \o Drop(HeaderFields, 4)}

\* The pairs of a file with suffix s, written as the n-th group of a stream:
\* depotFile //an, action add, type text, rev n, fileSize 1n, digest 00..0an
FilePairs(s, n) ==
    <<[key |-> KeyDepotFile \o <<48 + s>>, value |-> <<47, 47, 97, 48 + n>>],
      [key |-> KeyAction \o <<48 + s>>, value |-> <<97, 100, 100>>],
      [key |-> KeyType \o <<48 + s>>, value |-> <<116, 101, 120, 116>>],
      [key |-> KeyRev \o <<48 + s>>, value |-> <<48 + n>>],
      [key |-> KeyFileSize \o <<48 + s>>, value |-> <<49, 48 + n>>],
      [key |-> KeyDigest \o <<48 + s>>, value |-> [i \in 1..30 |-> 48] \o <<97, 48 + n>>]>>

\* The kinds of group: the whole file, its first three pairs, its last three,
\* all but the digest, the "type" pair alone, and a pair without a suffix.
SegmentKinds == {"Full", "Head", "Tail", "NoDigest", "Unknown", "Stray"}

Suffixes == {0, 1}

Segment(kind, s, n) ==
    CASE kind = "Full" -> FilePairs(s, n)
      [] kind = "Head" -> SubSeq(FilePairs(s, n), 1, 3)
      [] kind = "Tail" -> SubSeq(FilePairs(s, n), 4, 6)
      [] kind = "NoDigest" -> SubSeq(FilePairs(s, n), 1, 5)
      [] kind = "Unknown" -> SubSeq(FilePairs(s, n), 3, 3)
      [] OTHER -> <<[key |-> KeyPath, value |-> <<47, 47>>]>>

SegmentShapes == {<<kind, s>> : kind \in SegmentKinds \ {"Stray"}, s \in Suffixes} \cup {<<"Stray", 0>>}

NotBuilt == DescribeBuilt("No", "", None, None, InterimP4File)

IdleDescribe ==
    /\ describe_iter = NotBuilt
    /\ out_describe = <<>>

\* `p4 -G describe` writes one record: the header, then the files.
InitDescribe ==
    /\ \E header \in Headers : \E shapes \in SeqsUpTo(SegmentShapes, MaxSegments) :
         records_dict = <<header \o Flatten([n \in 1..Len(shapes) |->
                                              Segment(shapes[n][1], shapes[n][2], n)])>>
    /\ input_dict = EncStream(records_dict)
    /\ damage_dict = "none"
    /\ parser_dict = PyNew
    /\ crashed_dict = FALSE
    /\ out_dict = <<>>
    /\ IdleDescribe

\* The state after a call of new_from_reader that ended as r says.
DescribeBuilds(r) ==
    /\ describe_iter' = r.it
    /\ parser_dict' = r.p
    /\ out_dict' = out_dict \o r.pulls
    /\ crashed_dict' = Panicked(r.pulls)

\* The state after a call of describe_iter.next() that ended as r says.
DescribeReturns(r) ==
    /\ describe_iter' = [describe_iter EXCEPT
                             !.current_file_index = r.it.current_file_index,
                             !.current_file = r.it.current_file]
    /\ parser_dict' = r.p
    /\ out_dict' = out_dict \o r.pulls
    /\ crashed_dict' = Panicked(r.pulls)
    /\ out_describe' = Append(out_describe, r.ret)

\* The caller's P4DescribeIterator::new_from_reader(reader).
DescribeNew ==
    /\ "describe_iter" \in live
    /\ describe_iter.built = "No"
    /\ DescribeBuilds(DescribeNewFromReader(InterimP4Changelist, parser_dict, <<>>))
    /\ UNCHANGED <<live, input_dict, records_dict, damage_dict, vars_ztag,
                   changes_iter, out_changes, out_describe>>

\* A caller's call of describe_iter.next().
DescribeNext ==
    /\ "describe_iter" \in live
    /\ describe_iter.built = "Ok"
    /\ ~Panicked(out_describe)
    /\ Calling(out_describe)
    /\ DescribeReturns(DescribeIteratorNext(describe_iter, parser_dict, <<>>))
    /\ UNCHANGED <<live, input_dict, records_dict, damage_dict, vars_ztag,
                   changes_iter, out_changes>>

\* ================================================== the specifications

InitPy == live = {"parser_dict"} /\ InitDict /\ IdleZtag /\ IdleChanges /\ IdleDescribe

InitText == live = {"parser_ztag"} /\ IdleDict /\ InitZtag /\ IdleChanges /\ IdleDescribe

\* The binary decoder, pulled by a caller.
SpecPy == InitPy /\ [][DictPull]_vars

\* The text decoder, pulled by a caller.
SpecZtag == InitText /\ [][ZtagPull]_vars

InitPaired == InitBoth /\ IdleChanges /\ IdleDescribe

Init == InitPy \/ InitText \/ InitPaired

Next == DictPull \/ ZtagPull

\* Either decoder, or both side by side, pulled by a caller.
Spec == Init /\ [][Next]_vars

InitChangesIterator == live = {"changes_iter"} /\ InitChanges /\ IdleZtag /\ IdleDescribe

InitDescribeIterator == live = {"describe_iter"} /\ InitDescribe /\ IdleZtag /\ IdleChanges

\* P4ChangesIterator::new_from_reader on a stream, then calls of next.
SpecChanges == InitChangesIterator /\ [][ChangesNext]_vars

NextDescribe == DescribeNew \/ DescribeNext

\* A stream, P4DescribeIterator::new_from_reader on it, then calls of next.
SpecDescribe == InitDescribeIterator /\ [][NextDescribe]_vars

InitIterators == InitChangesIterator \/ InitDescribeIterator

NextIterators == ChangesNext \/ DescribeNew \/ DescribeNext

\* Either iterator, on its stream.
SpecIterators == InitIterators /\ [][NextIterators]_vars

\* ============================================================ properties

Last(s) == s[Len(s)]

\* The results that carry a triple, in the order they were returned.
Triples(out) == SelectSeq(out, LAMBDA r : r.kind = "Some")

\* ---- the binary decoder

\* The stream is the encoding of records_dict, whole and unaltered.
ValidDict == damage_dict = "none"

\* The pairs of the records in stream order, and for each the 0-based place
\* of its record among all the records of the stream.
FlatPairs == Flatten(records_dict)

FlatOrdinals == Flatten([i \in 1..Len(records_dict) |-> [j \in 1..Len(records_dict[i]) |-> i - 1]])

\* C1: on a valid binary stream the pulls return one triple per (key, value)
\* pair, in stream order and with that pair's key and value, and after the
\* last pair's triple every pull returns no-more-items.
C1_TriplePerPair ==
    ValidDict =>
        \A i \in 1..Len(out_dict) :
            IF i <= Len(FlatPairs)
            THEN /\ out_dict[i].kind = "Some"
                 /\ out_dict[i].key = FlatPairs[i].key
                 /\ out_dict[i].value = FlatPairs[i].value
            ELSE out_dict[i].kind = "None"

\* Two records of two and one pairs, all three triples returned, then the end.
C1_Witness ==
    /\ ValidDict
    /\ live = {"parser_dict"}
    /\ Len(records_dict) = 2
    /\ Len(records_dict[1]) = 2
    /\ Len(records_dict[2]) = 1
    /\ Len(out_dict) = 4
    /\ Len(Triples(out_dict)) = 3
    /\ out_dict[4].kind = "None"

\* C2, as claimed: on a valid binary stream (records with no pairs included)
\* the record_index of the first triple is 0 and, from one triple to the next,
\* it stays the same within a record and grows by exactly 1 across records.
C2_StepsByOne ==
    ValidDict =>
        LET t == Triples(out_dict)
        IN  \A i \in 1..Len(t) :
                /\ i <= Len(FlatOrdinals)
                /\ i = 1 => t[i].dict_index = 0
                /\ i > 1 => t[i].dict_index - t[i - 1].dict_index =
                                IF FlatOrdinals[i] = FlatOrdinals[i - 1] THEN 0 ELSE 1

\* C2, amended: on a valid binary stream the record_index of a triple is the
\* 0-based place of its record among all the records of the stream, those
\* with no pairs included; so the sequence never decreases, starts at the
\* number of leading records with no pairs, and grows between two yielded
\* records by 1 plus the number of records with no pairs between them.
C2_RecordOrdinal ==
    ValidDict =>
        LET t == Triples(out_dict)
        IN  \A i \in 1..Len(t) :
                /\ i <= Len(FlatOrdinals)
                /\ t[i].dict_index = FlatOrdinals[i]
                /\ i > 1 => t[i - 1].dict_index <= t[i].dict_index

\* A record of one pair, a record with no pairs, a record of two pairs: the
\* three triples report 0, 2 and 2.
C2_Witness ==
    /\ ValidDict
    /\ live = {"parser_dict"}
    /\ Len(records_dict) = 3
    /\ Len(records_dict[1]) = 1
    /\ records_dict[2] = <<>>
    /\ Len(records_dict[3]) = 2
    /\ Len(Triples(out_dict)) = 3
    /\ out_dict[1].dict_index = 0
    /\ out_dict[2].dict_index = 2
    /\ out_dict[3].dict_index = 2

\* C10: once a pull on the binary decoder has returned no-more-items, a later
\* pull returns no-more-items too and leaves the decoder, its read position
\* included, as it was.
C10_EofStable ==
    [][(out_dict # <<>> /\ Last(out_dict).kind = "None" /\ out_dict' # out_dict)
        => (Last(out_dict').kind = "None" /\ parser_dict' = parser_dict)]_vars

\* Triples were returned, then no-more-items twice.
C10_Witness ==
    /\ Len(out_dict) >= 4
    /\ out_dict[1].kind = "Some"
    /\ out_dict[Len(out_dict) - 1].kind = "None"
    /\ Last(out_dict).kind = "None"
    /\ parser_dict.state = "Eof"

\* ---- the text decoder

\* Whether a line opens a multi-line field.
IsMultiStart(line) == \E prefix \in MULTILINE_VAR_PREFIXES : starts_with(line, prefix)

\* The lines of the source grouped as the wire format groups them: a line
\* that starts with "... " opens a group; a line that does not belongs to the
\* group before it when that is one of a multi-line field; a blank line
\* elsewhere belongs to no group, and any other line is a group by itself.
RECURSIVE Groups(_, _)
Groups(ls, acc) ==
    IF ls = <<>> THEN acc
    ELSE LET l == Head(ls)
         IN  IF starts_with(l, PREFIX) THEN Groups(Tail(ls), Append(acc, <<l>>))
             ELSE IF acc # <<>> /\ IsMultiStart(Last(acc)[1])
             THEN Groups(Tail(ls), [acc EXCEPT ![Len(acc)] = Append(@, l)])
             ELSE IF l = <<LF>> THEN Groups(Tail(ls), acc)
             ELSE Groups(Tail(ls), Append(acc, <<l>>))

FieldGroups == Groups(input_ztag, <<>>)

\* A text without the line terminator it ends with, if it ends with one.
StripTerminator(s) ==
    IF Len(s) >= 2 /\ SubSeq(s, Len(s) - 1, Len(s)) = <<CR, LF>> THEN SubSeq(s, 1, Len(s) - 2)
    ELSE IF Len(s) >= 1 /\ s[Len(s)] = LF THEN SubSeq(s, 1, Len(s) - 1)
    ELSE s

\* The text of a group after the prefix, the key and the space that ends it.
AfterKey(group) ==
    LET raw == Flatten(group)
        rest == SubSeq(raw, PREFIX_LEN + 1, Len(raw))
    IN  IF is_none(find_space(rest)) THEN <<>>
        ELSE SubSeq(rest, find_space(rest)[1] + 2, Len(rest))

\* The text of a group after its first Len("... desc ") bytes.
AfterDesc(group) ==
    LET raw == Flatten(group)
    IN  SubSeq(raw, PREFIX_LEN + Len(KeyDesc) + 2, Len(raw))

\* A valid text stream: every line ends with '\n'; a line that starts with
\* "... " has a key and a space after it; a line that does not is a
\* continuation of a multi-line field or, elsewhere, the blank line.
RECURSIVE ValidLines(_, _)
ValidLines(ls, open) ==
    IF ls = <<>> THEN TRUE
    ELSE LET l == Head(ls)
         IN  /\ Last(l) = LF
             /\ IF starts_with(l, PREFIX)
                THEN /\ is_some(find_space(SubSeq(l, PREFIX_LEN + 1, Len(l))))
                     /\ find_space(SubSeq(l, PREFIX_LEN + 1, Len(l)))[1] >= 1
                     /\ ValidLines(Tail(ls), IsMultiStart(l))
                ELSE IF open THEN ValidLines(Tail(ls), TRUE)
                ELSE l = <<LF>> /\ ValidLines(Tail(ls), FALSE)

ValidZtag == ValidLines(input_ztag, FALSE)

\* How many of the first i triples of t carry the delimiter key d.
DelimCount(t, i, d) == Cardinality({j \in 1..i : t[j].key = d})

C4_DelimiterOrdinal ==
    is_some(parser_ztag.dict_delimiter_key) =>
        LET t == Triples(out_ztag)
            d == parser_ztag.dict_delimiter_key[1]
        IN  /\ \A i \in 1..Len(t) :
                   t[i].dict_index =
                       IF DelimCount(t, i, d) = 0 THEN 0 ELSE DelimCount(t, i, d) - 1
            /\ (input_ztag = SampleLines /\ d = KeyDesc) =>
                   \A i \in 1..Len(out_ztag) :
                       i <= Len(SampleExpected) => out_ztag[i] = SampleExpected[i]

\* C5: with no delimiter key every triple reports index 0.
C5_NoDelimiterIndexZero ==
    is_none(parser_ztag.dict_delimiter_key) =>
        \A i \in 1..Len(out_ztag) :
            out_ztag[i].kind = "Some" => out_ztag[i].dict_index = 0

\* No delimiter key, a blank line in the input, and triples returned on both
\* sides of it, a "desc" among them.
C5_Witness ==
    /\ live = {"parser_ztag"}
    /\ is_none(parser_ztag.dict_delimiter_key)
    /\ Len(input_ztag) = 3
    /\ input_ztag[2] = <<LF>>
    /\ Len(Triples(out_ztag)) = 2
    /\ out_ztag[1].key = KeyDesc
    /\ out_ztag[2].key = KeyC

\* C6: the value of a multi-line field is the text after "... desc " of its
\* first line followed by its continuation lines, in order and verbatim,
\* without the terminator of the last of them and nothing else removed.
C6_MultiLineVerbatim ==
    \A i \in 1..Len(out_ztag) :
        (out_ztag[i].kind = "Some" /\ i <= Len(FieldGroups) /\ IsMultiStart(FieldGroups[i][1])) =>
            out_ztag[i].value = StripTerminator(AfterDesc(FieldGroups[i]))

\* C7: the value of every field is the text after the first space after the
\* key, without the line terminator at its end if there is one and nothing
\* else removed, also when the last line of the input has no terminator.
C7_ValueVerbatim ==
    \A i \in 1..Len(out_ztag) :
        out_ztag[i].kind = "Some" =>
            /\ i <= Len(FieldGroups)
            /\ out_ztag[i].value = StripTerminator(AfterKey(FieldGroups[i]))

\* C9: once a pull on the text decoder has returned no-more-items, every
\* later pull returns no-more-items.
C9_ExhaustedStaysExhausted ==
    \A i \in 1..Len(out_ztag) : \A j \in i..Len(out_ztag) :
        out_ztag[i].kind = "None" => out_ztag[j].kind = "None"

\* ---- end of input at a record boundary, both decoders

\* Whether get_next_kvp, called on p, calls advance in the Root state with
\* the reader at the end of the input.
RECURSIVE DictMeetsEofInRoot(_)
DictMeetsEofInRoot(p) ==
    IF p.state = "Eof" THEN FALSE
    ELSE IF p.state = "Root" /\ p.reader >= Len(input_dict) THEN TRUE
    ELSE LET a == PyAdvance(p)
         IN  a.res = "continue" /\ DictMeetsEofInRoot(a.p)

\* Whether get_next_kvp, called on z, calls advance after a complete
\* single-line field or a blank line with no line left to read.
RECURSIVE ZtagMeetsEofAtBoundary(_)
ZtagMeetsEofAtBoundary(z) ==
    IF z.state = "Eof" THEN FALSE
    ELSE IF /\ z.state \in {"SingleLineYield", "EmptyLine"}
            /\ is_none(z.pending_line_buffer)
            /\ z.buffered_reader >= Len(input_ztag)
    THEN TRUE
    ELSE LET a == ZtagAdvance(z)
         IN  /\ a.state \in {"EmptyLine", "MultiLineInternal"}
             /\ ZtagMeetsEofAtBoundary([a.z EXCEPT !.state = a.state])

\* C8: a pull that meets the end of input at a record boundary (the binary
\* decoder in Root; the text decoder after a complete single-line field or a
\* blank line) returns no-more-items, no error, and leaves the decoder in Eof.
C8_CleanEndAtBoundary ==
    [][/\ (out_dict' # out_dict /\ DictMeetsEofInRoot(parser_dict))
            => (Last(out_dict').kind = "None" /\ parser_dict'.state = "Eof")
       /\ (out_ztag' # out_ztag /\ ZtagMeetsEofAtBoundary(parser_ztag))
            => (Last(out_ztag').kind = "None" /\ parser_ztag'.state = "Eof")]_vars

\* Both decoders have returned every triple of two records and then
\* no-more-items, the binary one after a '0' and the text one after a blank
\* line, and both are in Eof.
C8_Witness ==
    /\ live = {"parser_dict", "parser_ztag"}
    /\ Len(records_dict) = 2
    /\ Len(out_dict) = Len(FlatPairs) + 1
    /\ Last(out_dict).kind = "None"
    /\ input_dict[Len(input_dict)] = TagNullByte
    /\ parser_dict.state = "Eof"
    /\ Len(Triples(out_ztag)) = Len(FlatPairs) - 2
    /\ Last(out_ztag).kind = "None"
    /\ Last(input_ztag) = <<LF>>
    /\ parser_ztag.state = "Eof"

\* ---- the two decoders on the same records

\* u8::is_ascii_whitespace: space, tab, line feed, form feed, carriage return
is_ascii_whitespace(b) == b \in {SP, 9, LF, 12, CR}

\* <[u8]>::trim_ascii_end
RECURSIVE trim_ascii_end(_)
trim_ascii_end(s) ==
    IF s # <<>> /\ is_ascii_whitespace(s[Len(s)])
    THEN trim_ascii_end(SubSeq(s, 1, Len(s) - 1))
    ELSE s

\* The binary decoder's triples that validate_parsers compares: all but "code".
DictTriplesCompared == SelectSeq(Triples(out_dict), LAMBDA r : r.key # CodePair.key)

\* Both decoders read the same records, each in its wire form.
Paired == live = {"parser_dict", "parser_ztag"}

Exhausted(out) == \E i \in 1..Len(out) : out[i].kind = "None"

\* C12: on a binary and a text stream of the same records, with the text
\* decoder's delimiter key first in every record and a "code" pair opening
\* every binary record, the binary triples without the "code" triples are
\* the text triples, one by one: same record index, same key, same value up
\* to trailing ASCII whitespace; and both decoders are exhausted after the
\* same number of triples.
C12_DecodersAgree ==
    Paired =>
      LET b == DictTriplesCompared
          t == Triples(out_ztag)
      IN  /\ \A i \in 1..Len(b) : i <= Len(t) =>
               /\ b[i].dict_index = t[i].dict_index
               /\ b[i].key = t[i].key
               /\ trim_ascii_end(b[i].value) = trim_ascii_end(t[i].value)
          /\ \A i \in 1..Len(out_dict) : out_dict[i].kind \in {"Some", "None"}
          /\ \A i \in 1..Len(out_ztag) :
               /\ i <= Len(t) => out_ztag[i].kind = "Some"
               /\ i = Len(t) + 1 => out_ztag[i].kind = "None"
          /\ (Exhausted(out_dict) /\ Exhausted(out_ztag)) => Len(b) = Len(t)

\* Two records were read to the end by both decoders, the second at index 1
\* in both, and its "desc" value differs in trailing whitespace only.
C12_Witness ==
    /\ Paired
    /\ Exhausted(out_dict) /\ Exhausted(out_ztag)
    /\ Len(DictTriplesCompared) = 4
    /\ Last(DictTriplesCompared).key = KeyDesc
    /\ Last(DictTriplesCompared).dict_index = 1
    /\ Last(DictTriplesCompared).value # Last(Triples(out_ztag)).value

\* ---- errors of the decoders

\* C18: the first structural violation ends the stream: once a pull on a
\* decoder has returned an error (InvalidTag or UnexpectedEof from the binary
\* decoder, a malformed line from the text decoder), no later pull on that
\* decoder yields a triple.
C18_ErrorTerminates ==
    /\ \A i \in 1..Len(out_dict) : \A j \in 1..Len(out_dict) :
         (i < j /\ out_dict[i].kind = "Err") => out_dict[j].kind # "Some"
    /\ \A i \in 1..Len(out_ztag) : \A j \in 1..Len(out_ztag) :
         (i < j /\ out_ztag[i].kind = "Err") => out_ztag[j].kind # "Some"

\* The tag bytes each state accepts: '{' in Root, 's' or '0' in Dict, 's'
\* between a key and its value, 's' or '0' after a value.
AcceptedAt(state) ==
    CASE state = "Root" -> {TagDictByte}
      [] state = "Dict" -> {TagStringByte, TagNullByte}
      [] state = "Key" -> {TagStringByte}
      [] OTHER -> {TagStringByte, TagNullByte}

\* The position before the tag byte that the step from p reads: the read
\* position in Root and Dict, the end of the string that is read first in Key
\* and Value (None when the input ends inside that string).
TagPosition(p) ==
    IF p.state \in {"Root", "Dict"} THEN Some(p.reader)
    ELSE LET s == read_string(p, "current_key_buffer")
         IN  IF s.ok THEN Some(s.p.reader) ELSE None

\* The step from p meets a byte outside the accepted set at its tag position.
Mismatch(p) ==
    /\ p.state # "Eof"
    /\ is_some(TagPosition(p))
    /\ TagPosition(p)[1] < Len(input_dict)
    /\ input_dict[TagPosition(p)[1] + 1] \notin AcceptedAt(p.state)

\* The decoder at the step of the pull from p that fails or yields or ends.
RECURSIVE LastStep(_)
LastStep(p) ==
    IF p.state = "Eof" \/ PyAdvance(p).res # "continue" THEN p
    ELSE LastStep(PyAdvance(p).p)

\* C20: a byte outside the accepted set at a tag position makes the pull
\* return InvalidTag carrying exactly that byte, no triple, and leaves the
\* decoder's state and record index as they were before the failing step.
C20_InvalidTagKeepsState ==
    [][(out_dict' # out_dict /\ Mismatch(LastStep(parser_dict))) =>
          LET before == LastStep(parser_dict)
          IN  /\ Last(out_dict') = KvpErr("InvalidTag", input_dict[TagPosition(before)[1] + 1])
              /\ parser_dict'.state = before.state
              /\ parser_dict'.current_dict_index = before.current_dict_index]_vars

\* The first pull opened record 0, read the key, and failed on the 'x' found
\* where the value's tag belongs.
C20_Witness ==
    /\ out_dict # <<>>
    /\ Last(out_dict).kind = "Err" /\ Last(out_dict).err = "InvalidTag"
    /\ Last(out_dict).tag = 120
    /\ parser_dict.state = "Key"
    /\ parser_dict.current_dict_index = Some(0)
    /\ Len(out_dict) = 1

\* ---- the iterators

\* Every result after a None is a None.
NoneStays(out) ==
    \A i \in 1..Len(out) : \A j \in 1..Len(out) :
        (i < j /\ out[i].kind = "None") => out[j].kind = "None"

\* C11: once next of P4ChangesIterator or of P4DescribeIterator has returned
\* None, every later call returns None; and the last record is emitted once:
\* a call made after the parser has reported the end of the stream (the call
\* in which the last record was finalised, or in which there was none)
\* returns None and leaves the iterator as it is.
C11_NoneForEver ==
    /\ [](NoneStays(out_changes) /\ NoneStays(out_describe))
    /\ [][(parser_dict.state = "Eof" /\ out_changes' # out_changes) =>
             (Last(out_changes') = ItemNone /\ changes_iter' = changes_iter)]_vars
    /\ [][(parser_dict.state = "Eof" /\ out_describe' # out_describe) =>
             (Last(out_describe') = ItemNone /\ describe_iter' = describe_iter)]_vars

\* Three changelists were emitted, the last at the end of the stream, and
\* the two calls after it returned None.
C11_Witness ==
    /\ Len(out_changes) = 5
    /\ \A i \in 1..3 : out_changes[i].kind = "Some"
    /\ out_changes[4] = ItemNone /\ out_changes[5] = ItemNone

\* The items of the results that carry one, in the order they were returned.
Emitted(out) == [i \in 1..Len(Triples(out)) |-> Triples(out)[i].item[1]]

IsPrefix(s, t) == Len(s) <= Len(t) /\ s = SubSeq(t, 1, Len(s))

\* The record has a pair with this key.
Supplies(rec, key) == \E i \in 1..Len(rec) : rec[i].key = key

\* The value of the record's last pair with this key.
ValueOf(rec, key) ==
    rec[CHOOSE i \in 1..Len(rec) : rec[i].key = key /\ \A j \in (i + 1)..Len(rec) : rec[j].key # key].value

\* Every record of the stream supplies change, time, user and desc.
AllComplete ==
    \A i \in 1..Len(records_dict) :
        \A key \in {KeyChange, KeyTime, KeyUser, KeyDesc} : Supplies(records_dict[i], key)

\* The changelist a record describes (its numbers are written without
\* leading zeros in every stream here).
ChangelistOf(rec) ==
    [changelist |-> ValueOf(rec, KeyChange), time |-> ValueOf(rec, KeyTime),
     user |-> ValueOf(rec, KeyUser), description |-> ValueOf(rec, KeyDesc), files |-> <<>>]

ExpectedChangelists == [i \in 1..Len(records_dict) |-> ChangelistOf(records_dict[i])]

\* C13: on a valid binary stream whose records all supply change, time, user
\* and desc, P4ChangesIterator emits one changelist for each record index of
\* the triple stream, in stream order, each made of the triples of its own
\* record only (the triple at which the index changes belongs to the new
\* record): what has been emitted is always the changelists of the first
\* records, and all of them once the stream has been read to its end.
C13_OneChangelistPerRecord ==
    ("changes_iter" \in live /\ AllComplete) =>
        /\ IsPrefix(Emitted(out_changes), ExpectedChangelists)
        /\ parser_dict.state = "Eof" => Emitted(out_changes) = ExpectedChangelists

\* Three records were read to the end, the second without a "code" pair, so
\* that the triple that opened it is its "change".
C13_Witness ==
    /\ "changes_iter" \in live /\ AllComplete
    /\ Len(records_dict) = 3
    /\ records_dict[1][1].key = CodePair.key
    /\ records_dict[2][1].key = KeyChange
    /\ Len(Emitted(out_changes)) = 3
    /\ Last(out_changes) = ItemNone

\* Some required field of the accumulator is unset.
AnyUnset(accumulator, fields) == \E f \in DOMAIN fields : accumulator[f] = None

MissingField ==
    {"Missing changelist", "Missing time", "Missing user", "Missing description",
     "Missing depot path", "Missing action", "Missing revision", "Missing file size",
     "Missing digest"}

\* A call that finalised an accumulator with a required field unset failed
\* with a missing-field failure; every item returned was finalised from an
\* accumulator with every required field set, and holds what the accumulator
\* held.  fields names, for each field of the accumulator, that of the item.
FinalizedWhole(out, fields) ==
    \A i \in 1..Len(out) :
        /\ (is_some(out[i].taken) /\ AnyUnset(out[i].taken[1], fields)) =>
               (out[i].kind = "Panic" /\ out[i].err \in MissingField)
        /\ out[i].kind = "Some" =>
               /\ is_some(out[i].taken) /\ ~AnyUnset(out[i].taken[1], fields)
               /\ \A f \in DOMAIN fields :
                      out[i].item[1][fields[f]] = out[i].taken[1][f][1]

\* C14: neither iterator emits a record with an unset required field: when
\* an accumulator is finalised with a field unset the call fails with a
\* missing-field failure and emits nothing.
C14_NoUnsetFieldEmitted ==
    /\ FinalizedWhole(out_changes,
           [change |-> "changelist", time |-> "time", user |-> "user",
            description |-> "description"])
    /\ FinalizedWhole(out_describe,
           [depot_path |-> "depot_path", action |-> "action", revision |-> "revision",
            file_size |-> "file_size", digest |-> "digest"])

\* The first record was emitted whole; the second had no "desc", and the call
\* that finalised it at the end of the stream failed.
C14_Witness ==
    /\ Len(out_changes) = 2
    /\ out_changes[1].kind = "Some"
    /\ out_changes[2].kind = "Panic" /\ out_changes[2].err = "Missing description"
    /\ is_some(out_changes[2].taken)
    /\ out_changes[2].taken[1].description = None
    /\ is_some(out_changes[2].taken[1].user)
    /\ parser_dict.state = "Eof"

\* ---- the files of `p4 describe`

\* The pairs of the stream from the first key with a digit on, those that
\* come after the header, each with its key split into base and suffix
\* (suffix None when the key has no digit).
FileTriples ==
    LET rec == records_dict[1]
        suffixed == {i \in 1..Len(rec) : is_some(find_numeric(rec[i].key))}
        first == IF suffixed = {} THEN Len(rec) + 1
                 ELSE CHOOSE i \in suffixed : \A j \in suffixed : i <= j
    IN  [i \in 1..(Len(rec) + 1 - first) |->
            LET pair == rec[first + i - 1]
                split == split_indexed_key(pair.key)
            IN  IF split.res = "Some"
                THEN [suffix |-> Some(split.index), key |-> split.key, value |-> pair.value]
                ELSE [suffix |-> None, key |-> pair.key, value |-> pair.value]]

\* The distinct elements of s in the order of their first occurrence.
RECURSIVE FirstSeen(_, _)
FirstSeen(s, seen) ==
    IF s = <<>> THEN seen
    ELSE FirstSeen(Tail(s), IF \E k \in 1..Len(seen) : seen[k] = Head(s)
                            THEN seen ELSE Append(seen, Head(s)))

\* s with each run of equal elements reduced to one element.
RECURSIVE Runs(_)
Runs(s) ==
    IF Len(s) < 2 THEN s
    ELSE IF s[1] = s[2] THEN Runs(Tail(s))
    ELSE <<s[1]>> \o Runs(Tail(s))

SuffixesOf(triples) == [i \in 1..Len(triples) |-> triples[i].suffix]

FileKeys == {KeyDepotFile, KeyAction, KeyRev, KeyFileSize, KeyDigest}

\* The file a group of pairs describes.
FileOf(pairs) ==
    [depot_path |-> ValueOf(pairs, KeyDepotFile),
     action |-> ValueOf(pairs, KeyAction),
     revision |-> parse(ValueOf(pairs, KeyRev), U32_MAX)[1],
     file_size |-> parse(ValueOf(pairs, KeyFileSize), U64_MAX)[1],
     digest |-> decode_to_array(ValueOf(pairs, KeyDigest))[1]]

\* The files of a stream, one for each suffix in the order the suffixes are
\* first seen, each made of all the pairs of its suffix.
FilesBySuffix(triples) ==
    LET order == FirstSeen(SuffixesOf(triples), <<>>)
    IN  [k \in 1..Len(order) |->
            LET own == SelectSeq(triples, LAMBDA t : t.suffix = order[k])
            IN  IF \A key \in FileKeys : Supplies(own, key) THEN Some(FileOf(own)) ELSE None]

\* The pairs of each suffix follow one another.
Contiguous(triples) ==
    Runs(SuffixesOf(triples)) = FirstSeen(SuffixesOf(triples), <<>>)

\* P4DescribeIterator was built on a stream whose pairs after the header all
\* carry a suffix and supply, suffix by suffix, every field of a file.
DescribesFiles(triples) ==
    /\ "describe_iter" \in live
    /\ describe_iter.built = "Ok"
    /\ \A i \in 1..Len(triples) : is_some(triples[i].suffix)
    /\ \A k \in 1..Len(FilesBySuffix(triples)) : is_some(FilesBySuffix(triples)[k])

\* No call failed, the files emitted are the files of the first suffixes in
\* the order the suffixes were first seen, and all of them at the end.
EmitsFilesBySuffix(triples) ==
    LET expected == FilesBySuffix(triples)
        emitted == Emitted(out_describe)
    IN  /\ \A i \in 1..Len(out_describe) : out_describe[i].kind # "Panic"
        /\ Len(emitted) <= Len(expected)
        /\ \A k \in 1..Len(emitted) : Some(emitted[k]) = expected[k]
        /\ parser_dict.state = "Eof" => Len(emitted) = Len(expected)

\* C15: in P4DescribeIterator all pairs whose keys share a numeric suffix go
\* to the same emitted file, however they are interleaved with the pairs of
\* other suffixes, and the files are emitted in the order their suffixes were
\* first seen.
C15_SuffixGroupsInterleaved ==
    LET triples == FileTriples
    IN  DescribesFiles(triples) => EmitsFilesBySuffix(triples)

\* C16: when the pairs are grouped by suffix, one group after the other,
\* P4DescribeIterator emits one file for each group, in order and made of its
\* own group's pairs; the first suffixed pair, read by new_from_reader, is
\* part of the first file, and the last group is emitted at the end of the
\* stream.
C16_OneFilePerGroup ==
    LET triples == FileTriples
    IN  (DescribesFiles(triples) /\ Contiguous(triples)) => EmitsFilesBySuffix(triples)

\* Two whole groups, of suffix 1 and then of suffix 0: both files were
\* emitted, the first with the depot path of the pair that ended the header,
\* the second at the end of the stream, and then None.
C16_Witness ==
    LET triples == FileTriples
    IN  /\ DescribesFiles(triples) /\ Contiguous(triples)
        /\ Runs(SuffixesOf(triples)) = <<Some(<<49>>), Some(<<48>>)>>
        /\ Len(Emitted(out_describe)) = 2
        /\ Emitted(out_describe)[1].depot_path = triples[1].value
        /\ Last(out_describe) = ItemNone

\* ---- keys outside the dispatch tables

\* The accumulator after the pairs, when only the keys change, time, user and
\* desc act on it.
RECURSIVE FoldChange(_, _)
FoldChange(acc, pairs) ==
    IF pairs = <<>> THEN acc
    ELSE LET t == Head(pairs)
             next == CASE t.key = KeyChange -> [acc EXCEPT !.change = parse(t.value, U32_MAX)]
                       [] t.key = KeyTime -> [acc EXCEPT !.time = parse(t.value, U32_MAX)]
                       [] t.key = KeyUser -> [acc EXCEPT !.user = Some(t.value)]
                       [] t.key = KeyDesc -> [acc EXCEPT !.description = Some(t.value)]
                       [] OTHER -> acc
         IN  FoldChange(next, Tail(pairs))

\* The accumulator after the pairs, when only the keys whose base is
\* depotFile, action, rev, fileSize or digest act on it.
RECURSIVE FoldFile(_, _)
FoldFile(acc, pairs) ==
    IF pairs = <<>> THEN acc
    ELSE LET t == Head(pairs)
             base == split_indexed_key(t.key).key
             next == CASE base = KeyDepotFile -> [acc EXCEPT !.depot_path = Some(t.value)]
                       [] base = KeyAction -> [acc EXCEPT !.action = Some(t.value)]
                       [] base = KeyRev -> [acc EXCEPT !.revision = parse(t.value, U32_MAX)]
                       [] base = KeyFileSize -> [acc EXCEPT !.file_size = parse(t.value, U64_MAX)]
                       [] base = KeyDigest -> [acc EXCEPT !.digest = decode_to_array(t.value)]
                       [] OTHER -> acc
         IN  FoldFile(next, Tail(pairs))

\* What the call that appended `ret` to the history did, given the triples
\* it pulled, the accumulator before and after it, the empty accumulator
\* and the fold of the known keys: the accumulator it took was the one before
\* the call with the known keys of the triples of the same group applied; the
\* one it left is empty, or holds the triple that opened the next group if
\* its key is known; and it failed on a missing field only.
OnlyKnownKeysAct(pulls, ret, before, after, empty, Fold(_, _)) ==
    LET triples == Triples(pulls)
        ended == Last(pulls).kind = "None"
        same == IF ended THEN triples ELSE SubSeq(triples, 1, Len(triples) - 1)
    IN  /\ is_some(ret.taken) => ret.taken[1] = Fold(before, same)
        /\ ret.kind # "Panic" =>
               after = IF ended THEN empty ELSE Fold(empty, <<Last(triples)>>)
        /\ ret.kind = "Panic" => ret.err \in MissingField

\* The results of the pulls that the step made on the parser.
PullsOfStep == SubSeq(out_dict', Len(out_dict) + 1, Len(out_dict'))

\* C17: a triple whose key is outside the dispatch table (any key but change,
\* time, user, desc for P4ChangesIterator; any suffixed key whose base is not
\* depotFile, action, rev, fileSize or digest for P4DescribeIterator) never
\* makes the iterator fail and sets no field: over every call of next, the
\* accumulators are what the known keys alone make them, and such a triple
\* acts through its record index or suffix only.
C17_UnknownKeysChangeNothing ==
    /\ [][out_changes' # out_changes =>
            OnlyKnownKeysAct(PullsOfStep, Last(out_changes'), changes_iter.current_change,
                             changes_iter'.current_change, InterimP4Changelist, FoldChange)]_vars
    /\ [][(out_describe' # out_describe
           /\ \A i \in 1..Len(PullsOfStep) :
                  PullsOfStep[i].kind = "Some" => is_some(find_numeric(PullsOfStep[i].key))) =>
            OnlyKnownKeysAct(PullsOfStep, Last(out_describe'), describe_iter.current_file,
                             describe_iter'.current_file, InterimP4File, FoldFile)]_vars

\* Two changelists were emitted from records that each open with "code": the
\* first "code" triple met the accumulator of its own index, the second one
\* opened the second accumulator.
C17_Witness ==
    /\ "changes_iter" \in live
    /\ Len(records_dict) = 2
    /\ records_dict[1] # <<>> /\ records_dict[2] # <<>>
    /\ records_dict[1][1].key = CodePair.key /\ records_dict[2][1].key = CodePair.key
    /\ Len(out_changes) = 2
    /\ out_changes[1].kind = "Some" /\ out_changes[2].kind = "Some"
    /\ out_changes[2].taken[1].description = Some(ValueOf(records_dict[2], KeyDesc))

\* ---- the end of the stream of changelists

\* C19: at the end of the stream P4ChangesIterator emits a final record only
\* if an accumulator was opened by a triple: on a stream without any triple
\* the first call of next returns None and does not fail, and on a stream
\* whose first triple has a record index other than 0 (a leading record
\* without pairs) no accumulator that no triple has opened is finalised.
C19_NoEmptyFinalization ==
    "changes_iter" \in live =>
        /\ (Flatten(records_dict) = <<>> /\ out_changes # <<>>) => out_changes[1] = ItemNone
        /\ \A i \in 1..Len(out_changes) :
               is_some(out_changes[i].taken) => out_changes[i].taken[1] # InterimP4Changelist


\* ---- the end of the input inside a string of the binary stream

\* The step from p reads a string, and the input ends inside its 4 bytes of
\* length or inside the bytes that the length announces.
Truncated(p) ==
    /\ p.state \in {"Key", "Value"}
    /\ LET avail == Len(input_dict) - p.reader
       IN  \/ avail < 4
           \/ from_le_bytes(SubSeq(input_dict, p.reader + 1, p.reader + 4)) > avail - 4

\* C21: when the input ends inside the length prefix or inside the body of a
\* key or a value, the pull returns the UnexpectedEof error, which is neither
\* InvalidTag nor no-more-items, and the decoder's state and record index stay
\* as they were; no triple is returned by that pull or by any pull after it.
C21_TruncatedStringIsUnexpectedEof ==
    /\ [][(out_dict' # out_dict /\ Truncated(LastStep(parser_dict))) =>
            /\ Last(out_dict') = KvpErr("UnexpectedEof", 0)
            /\ Last(out_dict') \notin {KvpNone, KvpErr("InvalidTag", 0)}
            /\ parser_dict'.state = LastStep(parser_dict).state]_vars
    /\ [](\A i \in 1..Len(out_dict) : \A j \in 1..Len(out_dict) :
            (i < j /\ out_dict[i].err = "UnexpectedEof") => out_dict[j].kind # "Some")

\* The pair of the first record was returned; the input was cut inside the
\* value of the second record's pair, and the two pulls after the first both
\* returned UnexpectedEof in the Value state.
C21_Witness ==
    /\ damage_dict = "cut"
    /\ Len(out_dict) = 3
    /\ out_dict[1].kind = "Some"
    /\ out_dict[2] = KvpErr("UnexpectedEof", 0)
    /\ out_dict[3] = KvpErr("UnexpectedEof", 0)
    /\ parser_dict.state = "Value"
    /\ parser_dict.current_dict_index = Some(1)

\* ---- the end of the input at a tag position of the binary stream

\* The tags each state hands to expect_tags as the accepted set.
AcceptedTags(state) ==
    CASE state = "Root" -> {"Dict", "Eof"}
      [] state = "Dict" -> {"String", "Null"}
      [] state = "Key" -> {"String"}
      [] OTHER -> {"String", "Null"}

\* The step from p is inside a record and finds the end of the input where
\* its tag belongs: in Dict, or in Value after the whole value string.
EofAtTag(p) ==
    /\ p.state \in {"Dict", "Value"}
    /\ is_some(TagPosition(p))
    /\ TagPosition(p)[1] >= Len(input_dict)

\* C22: expect_tags returns no tag outside the accepted set, so a pull that
\* finds the end of the input at a tag position inside a record (in Dict
\* after '{', or after a value string) returns an error value: it does not
\* return no-more-items and does not abort in an arm marked unreachable.
C22_EofInsideRecordIsError ==
    [][(out_dict' # out_dict /\ EofAtTag(LastStep(parser_dict))) =>
          LET before == LastStep(parser_dict)
              at == [before EXCEPT !.reader = TagPosition(before)[1]]
              found == expect_tags(at, AcceptedTags(before.state))
          IN  /\ found.ok => found.tag \in AcceptedTags(before.state)
              /\ Last(out_dict').kind = "Err"]_vars

\* ---- the end of the input inside a multi-line value

\* Whether get_next_kvp, called on z, calls advance in MultiLineInternal with
\* no line left to read.
RECURSIVE ZtagMeetsEofMidMultiLine(_)
ZtagMeetsEofMidMultiLine(z) ==
    IF z.state = "Eof" THEN FALSE
    ELSE IF /\ z.state = "MultiLineInternal"
            /\ is_none(z.pending_line_buffer)
            /\ z.buffered_reader >= Len(input_ztag)
    THEN TRUE
    ELSE LET a == ZtagAdvance(z)
         IN  /\ a.state \in {"EmptyLine", "MultiLineInternal"}
             /\ ZtagMeetsEofMidMultiLine([a.z EXCEPT !.state = a.state])

\* C23: a pull that meets the end of the input while a multi-line value is
\* accumulated returns the accumulated field (the lines of the last group of
\* the source, key "desc") and leaves the decoder in MultiLineYield with no
\* pending line; the pull after it returns no-more-items, so the field is
\* returned once and is not dropped.
C23_MultiLineAtEofYieldsOnce ==
    /\ [][(out_ztag' # out_ztag /\ ZtagMeetsEofMidMultiLine(parser_ztag)) =>
            /\ Last(out_ztag').kind = "Some"
            /\ Last(out_ztag').key = KeyDesc
            /\ parser_ztag'.line_buffer = Flatten(Last(FieldGroups))
            /\ parser_ztag'.state = "MultiLineYield"
            /\ is_none(parser_ztag'.pending_line_buffer)]_vars
    /\ [][(/\ out_ztag' # out_ztag
           /\ parser_ztag.state = "MultiLineYield"
           /\ is_none(parser_ztag.pending_line_buffer)) =>
            Last(out_ztag') = KvpNone]_vars

\* ---- the pending line of the text decoder

\* The lines of the source that start with "... ", in source order.
FieldLines == SelectSeq(input_ztag, LAMBDA l : starts_with(l, PREFIX))

\* The key of a field line: the text between the prefix and the first space.
KeyOfLine(l) ==
    SubSeq(l, PREFIX_LEN + 1, PREFIX_LEN + find_space(SubSeq(l, PREFIX_LEN + 1, Len(l)))[1])

\* C24: on a valid text stream every line that starts with "... " gives one
\* triple, in source order, with that line's key and the value of the field
\* it opens, and after them comes no-more-items; a pending line is the line
\* read last, it opens the field that the next pull returns, and after that
\* pull no line is pending unless the pull read a new lookahead line.
C24_OneTriplePerFieldLine ==
    /\ [](ValidZtag =>
            /\ Len(FieldGroups) = Len(FieldLines)
            /\ \A i \in 1..Len(out_ztag) :
                 /\ i <= Len(FieldLines) =>
                      /\ out_ztag[i].kind = "Some"
                      /\ FieldGroups[i][1] = FieldLines[i]
                      /\ out_ztag[i].key = KeyOfLine(FieldLines[i])
                      /\ out_ztag[i].value = StripTerminator(AfterKey(FieldGroups[i]))
                 /\ i = Len(FieldLines) + 1 => out_ztag[i] = KvpNone
            /\ is_some(parser_ztag.pending_line_buffer) =>
                 parser_ztag.pending_line_buffer = Some(input_ztag[parser_ztag.buffered_reader]))
    /\ [][(ValidZtag /\ out_ztag' # out_ztag /\ is_some(parser_ztag.pending_line_buffer)) =>
            /\ Last(out_ztag').kind = "Some"
            /\ starts_with(parser_ztag'.line_buffer, parser_ztag.pending_line_buffer[1])
            /\ \/ is_none(parser_ztag'.pending_line_buffer)
               \/ parser_ztag'.buffered_reader > parser_ztag.buffered_reader]_vars

\* "... desc A", "B", "... desc A", "... c 12": the second pull took the
\* pending "... desc A", which opened a multi-line field of its own, returned
\* it, and holds "... c 12" pending.
C24_Witness ==
    /\ ValidZtag
    /\ Len(input_ztag) = 4
    /\ input_ztag[1] = FieldLine(KeyDesc, <<65>>, <<LF>>)
    /\ input_ztag[2] = <<66, LF>>
    /\ input_ztag[3] = FieldLine(KeyDesc, <<65>>, <<LF>>)
    /\ Len(out_ztag) = 2
    /\ out_ztag[1].kind = "Some" /\ out_ztag[1].value = <<65, LF, 66>>
    /\ out_ztag[2].kind = "Some" /\ out_ztag[2].value = <<65>>
    /\ parser_ztag.pending_line_buffer = Some(FieldLine(KeyC, <<49, 50>>, <<LF>>))

\* ---- the malformed line of the text decoder

\* A line that starts with "... " and has no space after it.
NoSpaceAfterKey(l) ==
    /\ starts_with(l, PREFIX)
    /\ \A k \in (PREFIX_LEN + 1)..Len(l) : l[k] # SP

\* C25: a field line with no space after its key makes the pull that reaches
\* it return the InvalidData error and no triple, and that pull leaves the
\* record index as it was.  (Every pull before it returned the field, or the
\* error, of one group of lines, so the i-th result belongs to the i-th group.)
C25_NoSpaceIsInvalidData ==
    /\ [](\A i \in 1..Len(out_ztag) :
            (i <= Len(FieldGroups) /\ NoSpaceAfterKey(FieldGroups[i][1])) =>
                out_ztag[i] = KvpErr("InvalidData", 0))
    /\ [][(/\ out_ztag' # out_ztag
           /\ Len(out_ztag') <= Len(FieldGroups)
           /\ NoSpaceAfterKey(FieldGroups[Len(out_ztag')][1])) =>
            parser_ztag'.current_dict_index = parser_ztag.current_dict_index]_vars

\* "... c 12", "... bad", "... c 12" with the delimiter key "c": the first
\* pull returned index 0, the second InvalidData, the third index 1.
C25_Witness ==
    /\ Len(input_ztag) = 3
    /\ input_ztag[2] = PREFIX \o <<98, 97, 100, LF>>
    /\ parser_ztag.dict_delimiter_key = Some(KeyC)
    /\ Len(out_ztag) = 3
    /\ out_ztag[1].kind = "Some" /\ out_ztag[1].dict_index = 0
    /\ out_ztag[2] = KvpErr("InvalidData", 0)
    /\ out_ztag[3].kind = "Some" /\ out_ztag[3].dict_index = 1

\* ---- the field a failed finalization names

\* The required fields in the order of their declaration, each with the text
\* that names it.
ChangelistFieldOrder ==
    <<<<"change", "Missing changelist">>, <<"time", "Missing time">>,
      <<"user", "Missing user">>, <<"description", "Missing description">>>>

FileFieldOrder ==
    <<<<"depot_path", "Missing depot path">>, <<"action", "Missing action">>,
      <<"revision", "Missing revision">>, <<"file_size", "Missing file size">>,
      <<"digest", "Missing digest">>>>

\* The places in the order of the fields the accumulator has unset.
UnsetIn(accumulator, order) == {k \in 1..Len(order) : accumulator[order[k][1]] = None}

\* Every call that finalised an accumulator with a field unset failed with
\* the text of the earliest unset field of the order.
NamesFirstUnset(out, order) ==
    \A i \in 1..Len(out) :
        (is_some(out[i].taken) /\ UnsetIn(out[i].taken[1], order) # {}) =>
            LET unset == UnsetIn(out[i].taken[1], order)
                first == CHOOSE k \in unset : \A j \in unset : k <= j
            IN  out[i].kind = "Panic" /\ out[i].err = order[first][2]

\* C26: finalising an accumulator with unset fields fails naming the first
\* unset field in declaration order (changelist, time, user, description;
\* depot path, action, revision, file size, digest), and that one only when
\* several are unset.
C26_FirstUnsetFieldNamed ==
    /\ NamesFirstUnset(out_changes, ChangelistFieldOrder)
    /\ NamesFirstUnset(out_describe, FileFieldOrder)

\* A record of "change" and "user" alone was finalised: time and description
\* were both unset, and the failure names the time.
C26_Witness ==
    /\ out_changes # <<>>
    /\ is_some(Last(out_changes).taken)
    /\ UnsetIn(Last(out_changes).taken[1], ChangelistFieldOrder) = {2, 4}
    /\ Last(out_changes).kind = "Panic"
    /\ Last(out_changes).err = "Missing time"

\* ---- the header of `p4 describe`

\* The place in the record of the first pair whose key has a digit, or one
\* past the last pair when no key has one.
FirstSuffixed(rec) ==
    LET suffixed == {i \in 1..Len(rec) : is_some(find_numeric(rec[i].key))}
    IN  IF suffixed = {} THEN Len(rec) + 1
        ELSE CHOOSE i \in suffixed : \A j \in suffixed : i <= j

\* The pairs before the first suffixed key supply change, time, user and desc.
HeaderComplete(rec) ==
    \A key \in {KeyChange, KeyTime, KeyUser, KeyDesc} :
        Supplies(SubSeq(rec, 1, FirstSuffixed(rec) - 1), key)

\* What new_from_reader does on the record, given the results of its pulls.
BuildsFromHeader(rec, pulls) ==
    LET first == FirstSuffixed(rec)
        read == IF first > Len(rec) THEN Len(rec) ELSE first
    IN  /\ Len(Triples(pulls)) = read
        /\ \A i \in 1..read : Triples(pulls)[i].key = rec[i].key
        /\ Len(pulls) = IF first > Len(rec) THEN read + 1 ELSE read
        /\ first > Len(rec) => Last(pulls) = KvpNone
        /\ IF HeaderComplete(rec)
           THEN /\ describe_iter'.built = "Ok"
                /\ describe_iter'.changelist = Some(ChangelistOf(SubSeq(rec, 1, first - 1)))
                /\ is_some(describe_iter'.current_file_index) <=> first <= Len(rec)
           ELSE /\ describe_iter'.built = "Err"
                /\ describe_iter'.err \in MissingField

\* C27: new_from_reader pulls the triples up to and including the first key
\* with a numeric suffix and no more; when change, time, user and desc were
\* not all seen before that key, or before the end of the stream, it returns
\* a missing-field error as a value and does not abort; and when no key has a
\* suffix the header is returned all the same, and the first call of next
\* returns None without emitting a file.
C27_HeaderEndsAtFirstSuffix ==
    /\ [][(describe_iter.built = "No" /\ describe_iter'.built # "No") =>
            BuildsFromHeader(records_dict[1], PullsOfStep)]_vars
    /\ [][(/\ out_describe = <<>>
           /\ out_describe' # <<>>
           /\ FirstSuffixed(records_dict[1]) > Len(records_dict[1])) =>
            (out_describe' = <<ItemNone>> /\ PullsOfStep = <<KvpNone>>)]_vars

\* The header and then a "path" pair, no key with a suffix: the iterator was
\* built with its changelist and no file index, and the first next returned
\* None.
C27_Witness ==
    /\ "describe_iter" \in live
    /\ Len(records_dict[1]) > Len(HeaderFields) + 1
    /\ FirstSuffixed(records_dict[1]) > Len(records_dict[1])
    /\ describe_iter.built = "Ok"
    /\ describe_iter.changelist = Some(ChangelistOf(records_dict[1]))
    /\ is_none(describe_iter.current_file_index)
    /\ out_describe = <<ItemNone>>

\* ---- the assertion of get_kvp_refs

\* C28: for every sequence of input lines, whenever the text decoder is in
\* a yielding state (SingleLineYield or MultiLineYield) its line buffer starts
\* with "... ", so that the assertion at the top of get_kvp_refs holds: a
\* non-blank line without the prefix that is read in a record-complete state
\* does not get there.
C28_YieldedLineHasPrefix ==
    should_yield(parser_ztag.state) => starts_with(parser_ztag.line_buffer, PREFIX)
====
